---- MODULE Spec2Model ----
(***************************************************************************)
(* A model of the datastruct binary-structure codec: the traversal engine  *)
(* (DataStruct.pack / unpack / sizeof and their per-field dispatch), the   *)
(* context model, the byte streams (BytesIO, SizingIO), the hook chain,    *)
(* the checksum helpers and the schema validator.                          *)
(*                                                                         *)
(* Python values are tagged records [t |-> <class>, v |-> <payload>];      *)
(* lazy values (Value[T]) are tagged expressions interpreted by evaluate.  *)
(***************************************************************************)
EXTENDS Integers, Sequences, FiniteSets, TLC

\* ------------------------------------------------------------------------
\* Bounds of the model
\* ------------------------------------------------------------------------
MaxData == 3
MaxByte == 1
\* the number of REPEAT iterations followed before a loop counts as
\* not terminating
MaxIter == 6

\* ------------------------------------------------------------------------
\* Program constants
\* ------------------------------------------------------------------------
PaddingPattern == 255

\* ------------------------------------------------------------------------
\* Python values
\* ------------------------------------------------------------------------
IntV(n) == [t |-> "int", v |-> n]
BoolV(b) == [t |-> "bool", v |-> b]
BytesV(q) == [t |-> "bytes", v |-> q]
ListV(q) == [t |-> "list", v |-> q]
StrV(x) == [t |-> "str", v |-> x]
\* a member of an enum.Enum class
EnumV(name, value) == [t |-> "enum", v |-> [name |-> name, value |-> value]]
StructV(cls, m) == [t |-> "struct", v |-> [cls |-> cls, m |-> m]]
FmtV(e, c, x) == [t |-> "fmt", v |-> [e |-> e, c |-> c, x |-> x]]
NoneV == [t |-> "none", v |-> 0]
Ell == [t |-> "ellipsis", v |-> 0]
RaiseV(typ) == [t |-> "raise", v |-> typ]
IsRaise(x) == x.t = "raise"
EmptyMap == [n \in {} |-> NoneV]

\* Python truthiness (bool(x))
Truthy(x) ==
    CASE x.t = "int" -> x.v # 0
      [] x.t = "bool" -> x.v
      [] x.t = "bytes" -> Len(x.v) > 0
      [] x.t = "list" -> Len(x.v) > 0
      [] x.t = "str" -> x.v # ""
      [] x.t = "none" -> FALSE
      [] OTHER -> TRUE

\* "x is False" / "x is True": identity with the boolean singletons
IsFalseNever(x) == FALSE
IsFalse(x) == x.t = "bool" /\ x.v = FALSE
IsTrueTruthy(x) == Truthy(x)
IsTrue(x) == x.t = "bool" /\ x.v = TRUE

\* Python == on the modelled values (True == 1, False == 0)
NumOf(x) == IF x.t = "bool" THEN (IF x.v THEN 1 ELSE 0) ELSE x.v
IsNum(x) == x.t \in {"int", "bool"}
PyEq(a, b) == IF IsNum(a) /\ IsNum(b) THEN NumOf(a) = NumOf(b) ELSE a = b
\* dict lookup: equal hash and ==, so True finds 1 and False finds 0
DictKeyEq(a, b) ==
    IF IsNum(a) /\ IsNum(b) THEN NumOf(a) = NumOf(b)
    ELSE a.t = b.t /\ a = b
\* f"{key}" of an int or a bool
FormatInt(x) ==
    IF x.t = "bool" THEN (IF x.v THEN "True" ELSE "False") ELSE ToString(x.v)

\* ------------------------------------------------------------------------
\* utils/misc.py
\* ------------------------------------------------------------------------
pad_up_whole_block(x, n) == n - (x % n)
pad_up(x, n) == (n - (x % n)) % n

\* repstr for a one-byte pattern
repstr(pat, length) == [i \in 1..length |-> pat]

Zeros(n) == [i \in 1..n |-> 0]
Max(a, b) == IF a > b THEN a ELSE b
Min(a, b) == IF a < b THEN a ELSE b
Take(q, n) == SubSeq(q, 1, Min(n, Len(q)))
Drop(q, n) == SubSeq(q, n + 1, Len(q))

\* ------------------------------------------------------------------------
\* The struct module's primitive layouts (external mini-language, modelled
\* by its contract): size of a type code, integer <-> bytes
\* ------------------------------------------------------------------------
CalcSize(code) ==
    CASE code = "B" -> 1
      [] code = "?" -> 1
      [] code = "H" -> 2
      [] OTHER -> 4

RECURSIVE IntToLE(_, _)
IntToLE(n, size) ==
    IF size = 0 THEN <<>>
    ELSE <<n % 256>> \o IntToLE(n \div 256, size - 1)

RECURSIVE LEToInt(_)
LEToInt(q) ==
    IF Len(q) = 0 THEN 0
    ELSE Head(q) + 256 * LEToInt(Tail(q))

Reverse(q) == [i \in 1..Len(q) |-> q[Len(q) + 1 - i]]

RECURSIVE Pow(_, _)
Pow(b, e) == IF e = 0 THEN 1 ELSE b * Pow(b, e - 1)

\* struct.pack(fmt, value) for one unsigned code; f is the fmt payload
StructPack(f, x) ==
    LET size == CalcSize(f.x)
        le == IntToLE(NumOf(x), size)
    IN  IF ~IsNum(x) THEN RaiseV("struct.error")
        ELSE IF f.x = "?" THEN BytesV(<<IF Truthy(x) THEN 1 ELSE 0>>)
        ELSE IF NumOf(x) < 0 \/ NumOf(x) >= Pow(256, size)
             THEN RaiseV("struct.error")
        ELSE BytesV(IF f.e = "<" THEN le ELSE Reverse(le))

\* struct.unpack(fmt, data) for one unsigned code
StructUnpack(f, data) ==
    IF Len(data) # CalcSize(f.x) THEN RaiseV("struct.error")
    ELSE IF f.x = "?" THEN BoolV(data[1] # 0)
    ELSE IntV(LEToInt(IF f.e = "<" THEN data ELSE Reverse(data)))

\* ------------------------------------------------------------------------
\* Declared types.  An annotation is what the schema author wrote; a
\* decoded type (FieldTypes) is a class or a tuple.  All are [k, n, a]:
\*   cls     a class n (int, bool, bytes, list, NoneType, ellipsis, ...)
\*   tuple   a decoded tuple with the elements a
\*   true    the marker True inside a generic's tuple
\*   None, Ellipsis, Any   the annotation objects None, ... and typing.Any
\*   union   typing.Union / X | Y with the arguments a
\*   generic a parameterized generic n[a...]
\* ------------------------------------------------------------------------
TCls(n) == [k |-> "cls", n |-> n, a |-> <<>>]
TTuple(a) == [k |-> "tuple", n |-> "", a |-> a]
TTrue == [k |-> "true", n |-> "", a |-> <<>>]
ANone == [k |-> "None", n |-> "", a |-> <<>>]
AEllipsis == [k |-> "Ellipsis", n |-> "", a |-> <<>>]
AAny == [k |-> "Any", n |-> "", a |-> <<>>]
AUnion(a) == [k |-> "union", n |-> "", a |-> a]
AGeneric(n, a) == [k |-> "generic", n |-> n, a |-> a]

TInt == TCls("int")
TBool == TCls("bool")
TBytes == TCls("bytes")
TList == TCls("list")
TNoneType == TCls("NoneType")
TEllipsisType == TCls("ellipsis")
TAnyTuple == TTuple(<<>>)

\* the DataStruct subclasses of the model (is_dataclass)
StructClasses ==
    {"DummyClass", "OtherClass", "WithBase1", "WithBase2", "Pair", "Padded",
     "Aligned", "Counted", "Cond", "Sw", "SwNoDef", "Outer", "Inner", "Ck",
     "Seek", "Bad", "Built", "TestSwitchPass", "TestSwitchFail",
     "TestCondFail",
     "CondElse",
     "BuiltOnce",
     "Fill",
     "NoFill",
     "FillNoDef",
     "Late",
     "TestUnion",
     "TestSpecial",
     "TestMixed",
     "Chain",
     "Nest",
     "IoTwice",
     "IoEnd",
     "IoRaw",
     "Until",
     "While",
     "Loop",
     "SwInt",
     "SwBool",
     "SwTruth",
     "SwEnum",
     "Act",
     "Rewind",
     "Back",
     "Fwd",
     "FwdAlign",
     "CondLit",
     "Budget"}

is_dataclass(t) == t.k = "cls" /\ t.n \in StructClasses

\* issubclass(a, b) for two classes
SubclassOf(a, b) ==
    \/ a = b
    \/ a = "bool" /\ b = "int"
    \/ a \in {"WithBase1", "WithBase2"} /\ b = "DummyClass"

InSeq(x, q) == \E i \in 1..Len(q) : q[i] = x

\* utils/types.py: decode_type
RECURSIVE decode_type(_)
decode_type(cls) ==
    LET dec == [i \in 1..Len(cls.a) |-> decode_type(cls.a[i])]
    IN  CASE cls.k = "tuple" -> cls
          [] cls.k = "None" -> TNoneType
          [] cls.k = "Ellipsis" -> TEllipsisType
          [] cls.k = "Any" -> TAnyTuple
          [] cls.k = "union" ->
                IF InSeq(TAnyTuple, dec) THEN TAnyTuple ELSE TTuple(dec)
          [] cls.k = "generic" -> TTuple(<<TCls(cls.n), TTrue>> \o dec)
          [] cls.k = "cls" /\ cls.n \in {"list", "tuple"} ->
                TTuple(<<cls, TTrue, TAnyTuple>>)
          [] OTHER -> cls

\* issubclass(cls, types) where types is a class or a tuple probed in order;
\* "T", "F", or "E" when a non-class element is reached before a match
RECURSIVE IsSubclass(_, _)
IsSubclass(cls, types) ==
    IF types.k = "cls" THEN (IF SubclassOf(cls.n, types.n) THEN "T" ELSE "F")
    ELSE IF types.k = "true" THEN "E"
    ELSE IF Len(types.a) = 0 THEN "F"
    ELSE LET h == IsSubclass(cls, types.a[1])
         IN  IF h # "F" THEN h
             ELSE IsSubclass(cls, TTuple(Tail(types.a)))

RECURSIVE AnySubclass(_, _)
AnySubclass(cls, q) ==
    IF Len(q) = 0 THEN "F"
    ELSE LET h == IsSubclass(cls, q[1])
         IN  IF h # "F" THEN h ELSE AnySubclass(cls, Tail(q))

\* utils/types.py: check_class_type
check_class_type(cls, types) ==
    IF types = TEllipsisType THEN "T"
    ELSE IF types.k = "cls" THEN IsSubclass(cls, types)
    ELSE IF types = TAnyTuple THEN "T"
    ELSE IF InSeq(TTrue, types.a) THEN IsSubclass(cls, types.a[1])
    ELSE AnySubclass(cls, types.a)

RECURSIVE AllClassType(_, _)
AllClassType(q, types) ==
    IF Len(q) = 0 THEN "T"
    ELSE LET h == IF q[1].k = "cls" THEN check_class_type(q[1], types) ELSE "E"
         IN  IF h # "T" THEN h ELSE AllClassType(Tail(q), types)

\* utils/types.py: check_types_match
check_types_match(subtypes, supertypes) ==
    IF subtypes = TEllipsisType \/ supertypes = TEllipsisType THEN "T"
    ELSE IF subtypes.k = "cls" THEN check_class_type(subtypes, supertypes)
    ELSE IF subtypes = TAnyTuple
         THEN (IF supertypes = TAnyTuple THEN "T" ELSE "F")
    ELSE IF supertypes = TAnyTuple THEN "T"
    ELSE IF InSeq(TTrue, subtypes.a)
         THEN check_class_type(subtypes.a[1], supertypes)
    ELSE AllClassType(subtypes.a, supertypes)

\* type(value) of a modelled value, as a class
ClassOf(x) ==
    CASE x.t = "struct" -> TCls(x.v.cls)
      [] x.t = "none" -> TNoneType
      [] OTHER -> TCls(x.t)

\* utils/types.py: check_value_type
check_value_type(value, types) == check_class_type(ClassOf(value), types)

\* ------------------------------------------------------------------------
\* Lazy values (types.py: Value[T] = Union[Eval[T], T]): a literal, or one
\* of the context lambdas used by the schemas below
\* ------------------------------------------------------------------------
NoVal == [k |-> "none", n |-> "", x |-> NoneV]
Lit(v) == [k |-> "lit", n |-> "", x |-> v]
\* lambda ctx: ctx.<n>
Attr(n) == [k |-> "attr", n |-> n, x |-> NoneV]
\* lambda ctx: len(ctx.<n>)
LenOf(n) == [k |-> "len", n |-> n, x |-> NoneV]
\* lambda ctx: ctx.<n> == v
AttrEq(n, v) == [k |-> "eq", n |-> n, x |-> v]
\* lambda ctx: ctx.G.root.<n> or v
RootOr(n, v) == [k |-> "rootor", n |-> n, x |-> v]
\* lambda ctx: ctx._.<n>
ParentAttr(n) == [k |-> "parent", n |-> n, x |-> NoneV]

IsSet(v) == v.k # "none"
\* lambda ctx: ctx.P.i / ctx.P.item / ctx.P.i < n / ctx.P.item == x
PIdx == [k |-> "pi", n |-> "", x |-> NoneV]
PItem == [k |-> "pitem", n |-> "", x |-> NoneV]
PIdxLt(n) == [k |-> "pilt", n |-> "", x |-> IntV(n)]
PItemEq(x) == [k |-> "pitemeq", n |-> "", x |-> x]
callable(v) == v.k \notin {"none", "lit"}
\* truthiness of a meta attribute ("if meta.length:")
MetaTruthy(v) == callable(v) \/ (v.k = "lit" /\ Truthy(v.x))

\* ------------------------------------------------------------------------
\* Field declarations (fields/_utils.py, standard.py, special.py,
\* wrapper.py, helper.py).  A declaration is the dataclass Field together
\* with its FieldMeta; absent meta attributes read as None (NoVal).
\* ------------------------------------------------------------------------
FieldDefaults ==
    [id |-> "", name |-> "", ann |-> ANone, ftype |-> "FIELD",
     public |-> TRUE, default |-> Ell, fmt |-> NoVal, builder |-> NoVal,
     always |-> FALSE, adapter |-> "", kwargs |-> <<>>, offset |-> NoVal,
     whence |-> "SET", absolute |-> FALSE, length |-> NoVal,
     modulus |-> NoVal, pattern |-> NoneV, check |-> NoneV, hook |-> "",
     io |-> "", end |-> FALSE, count |-> NoVal, when |-> NoVal, last |-> NoVal,
     condition |-> NoVal, if_not |-> Lit(Ell), key |-> NoVal,
     action |-> NoVal,
     cases |-> <<>>, hasbase |-> FALSE]

build_field(over) == over @@ FieldDefaults

build_wrapper(over, base) ==
    build_field(over @@ [base |-> base, hasbase |-> TRUE,
                         public |-> base.public, default |-> base.default])

field(fmt) == build_field([ftype |-> "FIELD", fmt |-> fmt])
field_default(fmt, d) ==
    build_field([ftype |-> "FIELD", fmt |-> fmt, default |-> d])
subfield == build_field([ftype |-> "FIELD"])
built(fmt, builder) ==
    build_field([ftype |-> "FIELD", fmt |-> fmt, builder |-> builder,
                 always |-> TRUE])
built_once(fmt, builder) ==
    build_field([ftype |-> "FIELD", fmt |-> fmt, builder |-> builder,
                 always |-> FALSE])
seek(offset) ==
    build_field([ftype |-> "SEEK", public |-> FALSE, offset |-> offset])
\* seek(offset, absolute=True)
seek_absolute(offset) ==
    build_field([ftype |-> "SEEK", public |-> FALSE, offset |-> offset,
                 absolute |-> TRUE])
padding(length) ==
    build_field([ftype |-> "PADDING", public |-> FALSE, length |-> length])
align(modulus) ==
    build_field([ftype |-> "PADDING", public |-> FALSE, modulus |-> modulus])
\* fields/special.py: action(_action)
action_field(a) ==
    build_field([ftype |-> "ACTION", public |-> FALSE, action |-> a])
hook(h) == build_field([ftype |-> "HOOK", public |-> FALSE, hook |-> h])
hook_end(h) ==
    build_field([ftype |-> "HOOK", public |-> FALSE, hook |-> h,
                 end |-> TRUE])
io(x) == build_field([ftype |-> "IO", public |-> FALSE, io |-> x])
io_end(x) ==
    build_field([ftype |-> "IO", public |-> FALSE, io |-> x, end |-> TRUE])
checksum_start(h) == hook(h)
checksum_end(h) == hook_end(h)
checksum_field(base) == [base EXCEPT !.adapter = "checksum"]
repeat(count, base) ==
    build_wrapper([ftype |-> "REPEAT", count |-> count, default |-> Ell],
                  base)

\* repeat(count, when=when, last=last)(base)
repeat_until(count, when, last, base) ==
    build_wrapper([ftype |-> "REPEAT", count |-> count, when |-> when,
                   last |-> last, default |-> Ell], base)
\* a repeat() field whose metadata["datastruct"].length is set afterwards
\* (types.py: FieldMeta.length; repeat() itself takes no length)
repeat_length(length, f) == [f EXCEPT !.length = length]
cond(condition, base) ==
    build_wrapper([ftype |-> "COND", condition |-> condition], base)
cond_if_not(condition, if_not, base) ==
    build_wrapper([ftype |-> "COND", condition |-> condition,
                   if_not |-> if_not], base)
switch(key, cases) ==
    build_field([ftype |-> "SWITCH", key |-> key, cases |-> cases])
\* a keyword case name=(type, field): the dict key is the str name
Case(key, type, f) ==
    [key |-> key, kv |-> StrV(key), type |-> type, field |-> f]
\* a case of the fields dict {kv: (type, field)}; key names it in the model
CaseV(kv, key, type, f) == [key |-> key, kv |-> kv, type |-> type, field |-> f]

\* the declaration "name: ann = f" of class cls; every Field object of the
\* schema (wrapped ones too) gets an identity under which its mutable
\* attributes (type, name, meta.types, meta.validated) are stored
RECURSIVE WithId(_, _)
WithId(f, id) ==
    LET g == [f EXCEPT !.id = id,
                       !.cases = [i \in 1..Len(f.cases) |->
                           [f.cases[i] EXCEPT !.field =
                               WithId(f.cases[i].field,
                                      id \o "/" \o f.cases[i].key)]]]
    IN  IF f.hasbase THEN [g EXCEPT !.base = WithId(f.base, id \o "/base")]
        ELSE g

Decl(cls, name, ann, f) ==
    [WithId(f, cls \o "." \o name) EXCEPT !.name = name, !.ann = ann]

\* ------------------------------------------------------------------------
\* The schemas under analysis.  Formats: "B" one byte, "H" two bytes,
\* "?" one byte read as a boolean.
\* ------------------------------------------------------------------------
FmtB == Lit(FmtV("", 1, "B"))
FmtH == Lit(FmtV("", 1, "H"))
FmtBool == Lit(FmtV("", 1, "?"))
FmtI == Lit(FmtV("", 1, "I"))
Bytes1 == Lit(IntV(1))

\* a: int = field("H"); b: bytes = field(1)
PairFields ==
    << Decl("Pair", "a", TInt, field(FmtH)),
       Decl("Pair", "b", TBytes, field(Bytes1)) >>

\* @datastruct(padding_pattern=b"\x00")
\* a: int = field("B"); _1: ... = padding(2)
PaddedFields ==
    << Decl("Padded", "a", TInt, field(FmtB)),
       Decl("Padded", "_1", AEllipsis, padding(Lit(IntV(2)))) >>

\* a: bytes = field(1); _1: ... = align(2); b: int = field("B")
AlignedFields ==
    << Decl("Aligned", "a", TBytes, field(Bytes1)),
       Decl("Aligned", "_1", AEllipsis, align(Lit(IntV(2)))),
       Decl("Aligned", "b", TInt, field(FmtB)) >>

\* count: int = built("B", lambda ctx: len(ctx.items))
\* items: list[int] = repeat(lambda ctx: ctx.count)(field("B"))
CountedFields ==
    << Decl("Counted", "count", TInt, built(FmtB, LenOf("items"))),
       Decl("Counted", "items", AGeneric("list", <<TInt>>),
            repeat(Attr("count"), field(FmtB))) >>

\* flag: bool = field("?"); v: int | None = cond(lambda ctx: ctx.flag)(field("B"))
CondFields ==
    << Decl("Cond", "flag", TBool, field(FmtBool)),
       Decl("Cond", "v", AUnion(<<TInt, ANone>>),
            cond(Attr("flag"), field(FmtB))) >>

\* flag: bool = field("?")
\* v: int = cond(lambda ctx: ctx.flag, if_not=7)(field("B"))
CondElseFields ==
    << Decl("CondElse", "flag", TBool, field(FmtBool)),
       Decl("CondElse", "v", TInt,
            cond_if_not(Attr("flag"), Lit(IntV(7)), field(FmtB))) >>

\* kind: int = field("B")
\* data: int | bytes = switch(lambda ctx: ctx.kind)(
\*     _0=(int, field("B")), default=(bytes, field(1)))
SwFields ==
    << Decl("Sw", "kind", TInt, field(FmtB)),
       Decl("Sw", "data", AUnion(<<TInt, TBytes>>),
            switch(Attr("kind"),
                   << Case("_0", TInt, field(FmtB)),
                      Case("default", TBytes, field(Bytes1)) >>)) >>

\* kind: int = field("B")
\* data: int = switch(lambda ctx: ctx.kind)(_0=(int, field("B")))
SwNoDefFields ==
    << Decl("SwNoDef", "kind", TInt, field(FmtB)),
       Decl("SwNoDef", "data", TInt,
            switch(Attr("kind"), << Case("_0", TInt, field(FmtB)) >>)) >>

\* name: bytes = field(lambda ctx: ctx.G.root.name_len or 2)
InnerFields ==
    << Decl("Inner", "name", TBytes, field(RootOr("name_len", IntV(2)))) >>

\* n: int = field("B"); inner: Inner = subfield()
OuterFields ==
    << Decl("Outer", "n", TInt, field(FmtB)),
       Decl("Outer", "inner", TCls("Inner"), subfield) >>

\* _s: ... = checksum_start(init=0, update=byte sum, end=identity)
\* flag: int = field("B")
\* v: int | None = cond(lambda ctx: ctx.flag == 1)(field("B"))
\* _e: ... = checksum_end(_s)
\* ck: int = checksum_field("ck")(field("B", default=0))
CkFields ==
    << Decl("Ck", "_s", AEllipsis, checksum_start("sum")),
       Decl("Ck", "flag", TInt, field(FmtB)),
       Decl("Ck", "v", AUnion(<<TInt, ANone>>),
            cond(AttrEq("flag", IntV(1)), field(FmtB))),
       Decl("Ck", "_e", AEllipsis, checksum_end("sum")),
       Decl("Ck", "ck", TInt,
            checksum_field(field_default(FmtB, IntV(0)))) >>

\* a: int = field("B"); _1: ... = seek(2)
SeekFields ==
    << Decl("Seek", "a", TInt, field(FmtB)),
       Decl("Seek", "_1", AEllipsis, seek(Lit(IntV(2)))) >>

\* a: int = field("B"); b: list[int] = field("B")
BadFields ==
    << Decl("Bad", "a", TInt, field(FmtB)),
       Decl("Bad", "b", AGeneric("list", <<TInt>>), field(FmtB)) >>

\* v: int = field("B"); twice: int = built("B", lambda ctx: ctx.v)
BuiltFields ==
    << Decl("Built", "v", TInt, field(FmtB)),
       Decl("Built", "twice", TInt, built(FmtB, Attr("v"))) >>

\* v: int = field("B")
\* twice: int = built("B", lambda ctx: ctx.v, always=False)
\* thrice: int = built("B", lambda ctx: ctx.twice)
BuiltOnceFields ==
    << Decl("BuiltOnce", "v", TInt, field(FmtB)),
       Decl("BuiltOnce", "twice", TInt, built_once(FmtB, Attr("v"))),
       Decl("BuiltOnce", "thrice", TInt, built(FmtB, Attr("twice"))) >>

\* @datastruct(repeat_fill=True)
\* a: int = field("B"); items: list[int] = repeat(2)(field("B", default=9))
FillFields ==
    << Decl("Fill", "a", TInt, field(FmtB)),
       Decl("Fill", "items", AGeneric("list", <<TInt>>),
            repeat(Lit(IntV(2)), field_default(FmtB, IntV(9)))) >>

\* the same class without repeat_fill
NoFillFields ==
    << Decl("NoFill", "a", TInt, field(FmtB)),
       Decl("NoFill", "items", AGeneric("list", <<TInt>>),
            repeat(Lit(IntV(2)), field_default(FmtB, IntV(9)))) >>

\* @datastruct(repeat_fill=True)
\* a: int = field("B"); items: list[int] = repeat(2)(field("B"))
FillNoDefFields ==
    << Decl("FillNoDef", "a", TInt, field(FmtB)),
       Decl("FillNoDef", "items", AGeneric("list", <<TInt>>),
            repeat(Lit(IntV(2)), field(FmtB))) >>

\* v: int | None = cond(lambda ctx: ctx.flag)(field("B"))
\* flag: bool = field("?")
LateFields ==
    << Decl("Late", "v", AUnion(<<TInt, ANone>>),
            cond(Attr("flag"), field(FmtB))),
       Decl("Late", "flag", TBool, field(FmtBool)) >>

\* Fields declared with a union or an optional type
\* (tests/test_validation.py: TestValidationFail.test_simple.TestClass7,
\* tests/test_validation_cond.py: TestValidationCondPass)
\* u1: int | bool = field("I"); u2: int | None = field("I")
\* u3: int | bool | bytes = field("I")
\* u4: int | None = cond(True)(field("I"))
\* u5: DummyClass | OtherClass | None = cond(True)(switch(True)(
\*     false=(DummyClass, subfield()), true=(OtherClass, subfield())))
\* u6: int | bool | bytes = cond(True, if_not=False)(field("I"))
TestUnionFields ==
    << Decl("TestUnion", "u1", AUnion(<<TInt, TBool>>), field(FmtI)),
       Decl("TestUnion", "u2", AUnion(<<TInt, ANone>>), field(FmtI)),
       Decl("TestUnion", "u3", AUnion(<<TInt, TBool, TBytes>>), field(FmtI)),
       Decl("TestUnion", "u4", AUnion(<<TInt, ANone>>),
            cond(Lit(BoolV(TRUE)), field(FmtI))),
       Decl("TestUnion", "u5",
            AUnion(<<TCls("DummyClass"), TCls("OtherClass"), ANone>>),
            cond(Lit(BoolV(TRUE)),
                 switch(Lit(BoolV(TRUE)),
                        << Case("false", TCls("DummyClass"), subfield),
                           Case("true", TCls("OtherClass"), subfield) >>))),
       Decl("TestUnion", "u6", AUnion(<<TInt, TBool, TBytes>>),
            cond_if_not(Lit(BoolV(TRUE)), Lit(BoolV(FALSE)), field(FmtI))) >>

\* Special fields and fields declared with Ellipsis
\* (tests/test_validation.py: TestValidationFail.test_special, test_repeat,
\* tests/test_validation_cond.py: TestValidationCondPass.test_cond_special)
\* s1: int = padding(4); s2: ... = padding(4)
\* s3: ... = cond(True)(padding(4)); s4: ... = repeat(4)(padding(4))
\* s5: ... = field("I"); s6: ... = repeat(4)(field("I"))
TestSpecialFields ==
    << Decl("TestSpecial", "s1", TInt, padding(Lit(IntV(4)))),
       Decl("TestSpecial", "s2", AEllipsis, padding(Lit(IntV(4)))),
       Decl("TestSpecial", "s3", AEllipsis,
            cond(Lit(BoolV(TRUE)), padding(Lit(IntV(4))))),
       Decl("TestSpecial", "s4", AEllipsis,
            repeat(Lit(IntV(4)), padding(Lit(IntV(4))))),
       Decl("TestSpecial", "s5", AEllipsis, field(FmtI)),
       Decl("TestSpecial", "s6", AEllipsis,
            repeat(Lit(IntV(4)), field(FmtI))) >>

\* m1: DummyClass = padding(4); m2: Any = cond(True)(padding(4))
\* m3: int | bool = repeat(4)(field("I")); m4: int = seek(2)
\* m5: ... = repeat(4)(cond(True)(padding(4)))
TestMixedFields ==
    << Decl("TestMixed", "m1", TCls("DummyClass"), padding(Lit(IntV(4)))),
       Decl("TestMixed", "m2", AAny,
            cond(Lit(BoolV(TRUE)), padding(Lit(IntV(4))))),
       Decl("TestMixed", "m3", AUnion(<<TInt, TBool>>),
            repeat(Lit(IntV(4)), field(FmtI))),
       Decl("TestMixed", "m4", TInt, seek(Lit(IntV(2)))),
       Decl("TestMixed", "m5", AEllipsis,
            repeat(Lit(IntV(4)),
                   cond(Lit(BoolV(TRUE)), padding(Lit(IntV(4)))))) >>

\* inc = hook(update=..., read=...); dbl = hook(update=..., write=...)
\* _1: ... = hook(inc); _2: ... = hook(dbl); a: int = field("B")
\* _3: ... = hook_end(_2); _4: ... = hook_end(_1); b: int = field("B")
ChainFields ==
    << Decl("Chain", "_1", AEllipsis, hook("inc")),
       Decl("Chain", "_2", AEllipsis, hook("dbl")),
       Decl("Chain", "a", TInt, field(FmtB)),
       Decl("Chain", "_3", AEllipsis, hook_end("dbl")),
       Decl("Chain", "_4", AEllipsis, hook_end("inc")),
       Decl("Chain", "b", TInt, field(FmtB)) >>

\* the hook object dbl started twice with inc in between
\* _1: ... = hook(dbl); _2: ... = hook(inc); _3: ... = hook(dbl)
\* a: int = field("B"); _4: ... = hook_end(_3); b: int = field("B")
\* _5: ... = hook_end(_2); _6: ... = hook_end(_1)
NestFields ==
    << Decl("Nest", "_1", AEllipsis, hook("dbl")),
       Decl("Nest", "_2", AEllipsis, hook("inc")),
       Decl("Nest", "_3", AEllipsis, hook("dbl")),
       Decl("Nest", "a", TInt, field(FmtB)),
       Decl("Nest", "_4", AEllipsis, hook_end("dbl")),
       Decl("Nest", "b", TInt, field(FmtB)),
       Decl("Nest", "_5", AEllipsis, hook_end("inc")),
       Decl("Nest", "_6", AEllipsis, hook_end("dbl")) >>

\* x = IOHook(); y = IOHook()
\* a: int = field("B"); _1: ... = io(x); _2: ... = io(y); b: int = field("B")
IoTwiceFields ==
    << Decl("IoTwice", "a", TInt, field(FmtB)),
       Decl("IoTwice", "_1", AEllipsis, io("x")),
       Decl("IoTwice", "_2", AEllipsis, io("y")),
       Decl("IoTwice", "b", TInt, field(FmtB)) >>

\* _1: ... = io(x); _2: ... = io_end(_1); a: int = field("B")
IoEndFields ==
    << Decl("IoEnd", "_1", AEllipsis, io("x")),
       Decl("IoEnd", "_2", AEllipsis, io_end("x")),
       Decl("IoEnd", "a", TInt, field(FmtB)) >>

\* _1: ... = io(x); a: int = field("B"); _2: ... = io_end(_1)
IoRawFields ==
    << Decl("IoRaw", "_1", AEllipsis, io("x")),
       Decl("IoRaw", "a", TInt, field(FmtB)),
       Decl("IoRaw", "_2", AEllipsis, io_end("x")) >>

\* items: List[int] = repeat(last=lambda ctx: ctx.P.item == 1)(field("B"))
UntilFields ==
    << Decl("Until", "items", AGeneric("list", <<TInt>>),
            repeat_until(NoVal, NoVal, PItemEq(IntV(1)), field(FmtB))) >>

\* a: int = field("B")
\* items: List[int] = repeat(when=lambda ctx: ctx.P.i < 2)(field("B"))
WhileFields ==
    << Decl("While", "a", TInt, field(FmtB)),
       Decl("While", "items", AGeneric("list", <<TInt>>),
            repeat_until(NoVal, PIdxLt(2), NoVal, field(FmtB))) >>

\* items: List[int] = repeat(2, when=lambda ctx: ctx.P.i,
\*                          last=lambda ctx: ctx.P.item)(field("B"))
LoopFields ==
    << Decl("Loop", "items", AGeneric("list", <<TInt>>),
            repeat_until(Lit(IntV(2)), PIdx, PItem, field(FmtB))) >>

\* kind: int = field("B")
\* data: int | bytes = switch(lambda ctx: ctx.kind)(
\*     {1: (int, field("B"))}, _1=(bytes, field(1)), default=(bytes, field(1)))
SwIntFields ==
    << Decl("SwInt", "kind", TInt, field(FmtB)),
       Decl("SwInt", "data", AUnion(<<TInt, TBytes>>),
            switch(Attr("kind"),
                   << CaseV(IntV(1), "1", TInt, field(FmtB)),
                      Case("_1", TBytes, field(Bytes1)),
                      Case("default", TBytes, field(Bytes1)) >>)) >>

\* flag: bool = field("?")
\* data: int | bytes = switch(lambda ctx: ctx.flag)(
\*     _True=(int, field("B")), true=(bytes, field(1)),
\*     false=(bytes, field(1)), default=(int, field("B")))
SwBoolFields ==
    << Decl("SwBool", "flag", TBool, field(FmtBool)),
       Decl("SwBool", "data", AUnion(<<TInt, TBytes>>),
            switch(Attr("flag"),
                   << Case("_True", TInt, field(FmtB)),
                      Case("true", TBytes, field(Bytes1)),
                      Case("false", TBytes, field(Bytes1)),
                      Case("default", TInt, field(FmtB)) >>)) >>

\* flag: bool = field("?")
\* data: int | bytes = switch(lambda ctx: ctx.flag)(
\*     {1: (int, field("B"))}, true=(bytes, field(1)),
\*     default=(bytes, field(1)))
SwTruthFields ==
    << Decl("SwTruth", "flag", TBool, field(FmtBool)),
       Decl("SwTruth", "data", AUnion(<<TInt, TBytes>>),
            switch(Attr("flag"),
                   << CaseV(IntV(1), "1", TInt, field(FmtB)),
                      Case("true", TBytes, field(Bytes1)),
                      Case("default", TBytes, field(Bytes1)) >>)) >>

\* class Kind(Enum): A = 1; B = 2; C = 3; D = 4
KindMembers ==
    {EnumV("A", IntV(1)), EnumV("B", IntV(2)), EnumV("C", IntV(3)),
     EnumV("D", IntV(4))}
\* data: int | bytes = switch(lambda ctx: ctx.kind)(
\*     {Kind.A: (int, field("B")), 2: (int, field("B")),
\*      3: (int, field("B"))},
\*     A=(bytes, field(1)), B=(bytes, field(1)), default=(bytes, field(1)))
\* with the discriminant passed as unpack(data, kind=...) / pack(kind=...)
SwEnumFields ==
    << Decl("SwEnum", "data", AUnion(<<TInt, TBytes>>),
            switch(Attr("kind"),
                   << CaseV(EnumV("A", IntV(1)), "Kind.A", TInt, field(FmtB)),
                      CaseV(IntV(2), "2", TInt, field(FmtB)),
                      CaseV(IntV(3), "3", TInt, field(FmtB)),
                      Case("A", TBytes, field(Bytes1)),
                      Case("B", TBytes, field(Bytes1)),
                      Case("default", TBytes, field(Bytes1)) >>)) >>

\* a: int = field("B"); _1: ... = action(lambda ctx: ctx.a)
\* b: int = field("B")
ActFields ==
    << Decl("Act", "a", TInt, field(FmtB)),
       Decl("Act", "_1", AEllipsis, action_field(Attr("a"))),
       Decl("Act", "b", TInt, field(FmtB)) >>

\* _1: ... = seek(0, absolute=True); b: int = field("B")
RewindFields ==
    << Decl("Rewind", "_1", AEllipsis, seek_absolute(Lit(IntV(0)))),
       Decl("Rewind", "b", TInt, field(FmtB)) >>

\* a: int = field("B"); inner: Rewind = subfield()
BackFields ==
    << Decl("Back", "a", TInt, field(FmtB)),
       Decl("Back", "inner", TCls("Rewind"), subfield) >>

\* ck: int = checksum_field("ck")(field("B", default=0))
\* _s: ... = checksum_start(init=0, update=byte sum, end=identity, target=ck)
\* a: int = field("B")
\* _e: ... = checksum_end(_s)
FwdFields ==
    << Decl("Fwd", "ck", TInt, checksum_field(field_default(FmtB, IntV(0)))),
       Decl("Fwd", "_s", AEllipsis, checksum_start("fsum")),
       Decl("Fwd", "a", TInt, field(FmtB)),
       Decl("Fwd", "_e", AEllipsis, checksum_end("fsum")) >>

\* ck: int = checksum_field("ck")(field("B", default=0))
\* _p: ... = align(2)
\* _s: ... = checksum_start(init=0, update=byte sum, end=identity, target=ck)
\* _q: ... = align(2)
\* _e: ... = checksum_end(_s)
FwdAlignFields ==
    << Decl("FwdAlign", "ck", TInt,
            checksum_field(field_default(FmtB, IntV(0)))),
       Decl("FwdAlign", "_p", AEllipsis, align(Lit(IntV(2)))),
       Decl("FwdAlign", "_s", AEllipsis, checksum_start("fsum")),
       Decl("FwdAlign", "_q", AEllipsis, align(Lit(IntV(2)))),
       Decl("FwdAlign", "_e", AEllipsis, checksum_end("fsum")) >>

\* a: int | None = cond(None)(field("B"))
\* b: int | None = cond(0)(field("B"))
\* c: int | None = cond(b"")(field("B"))
\* d: int | None = cond(False)(field("B"))
CondLitFields ==
    << Decl("CondLit", "a", AUnion(<<TInt, ANone>>),
            cond(Lit(NoneV), field(FmtB))),
       Decl("CondLit", "b", AUnion(<<TInt, ANone>>),
            cond(Lit(IntV(0)), field(FmtB))),
       Decl("CondLit", "c", AUnion(<<TInt, ANone>>),
            cond(Lit(BytesV(<<>>)), field(FmtB))),
       Decl("CondLit", "d", AUnion(<<TInt, ANone>>),
            cond(Lit(BoolV(FALSE)), field(FmtB))) >>

\* n: int = field("B")
\* items: List[bytes] = repeat(when=True)(field(lambda ctx: ctx.n)), with
\* the length of the REPEAT metadata set to 2
BudgetFields ==
    << Decl("Budget", "n", TInt, field(FmtB)),
       Decl("Budget", "items", AGeneric("list", <<TBytes>>),
            repeat_length(Lit(IntV(2)),
                repeat_until(NoVal, Lit(BoolV(TRUE)), NoVal,
                             field(Attr("n"))))) >>

\* tests/test_validation_switch.py: TestValidationSwitchPass.test_switch_simple
TestSwitchPassFields ==
    << Decl("TestSwitchPass", "var1", TInt,
            switch(Lit(BoolV(FALSE)),
                   << Case("false", TInt, field(FmtH)),
                      Case("true", TInt, field(FmtI)) >>)),
       Decl("TestSwitchPass", "var2",
            AUnion(<<TCls("DummyClass"), TCls("OtherClass")>>),
            switch(Lit(BoolV(FALSE)),
                   << Case("false", TCls("DummyClass"), subfield),
                      Case("true", TCls("OtherClass"), subfield) >>)),
       Decl("TestSwitchPass", "var3", TCls("DummyClass"),
            switch(Lit(BoolV(FALSE)),
                   << Case("false", TCls("WithBase1"), subfield),
                      Case("true", TCls("WithBase2"), subfield) >>)),
       Decl("TestSwitchPass", "var6",
            AUnion(<<TInt, TBool, AGeneric("list", <<TInt>>)>>),
            switch(Lit(IntV(4)),
                   << Case("_0", TInt, field(FmtI)),
                      Case("_2", TBool, field(FmtH)),
                      Case("_4", AGeneric("list", <<TInt>>),
                           repeat(Lit(IntV(2)), field(FmtH))) >>)) >>

\* tests/test_validation_switch.py: TestValidationSwitchFail, the fields of
\* TestClass1..TestClass4 of test_switch_type_not_matched
TestSwitchFailFields ==
    << Decl("TestSwitchFail", "var1", TInt,
            switch(Lit(BoolV(FALSE)),
                   << Case("false", TInt, field(FmtH)),
                      Case("true", TBytes, field(FmtI)) >>)),
       Decl("TestSwitchFail", "var2",
            AGeneric("list", <<AUnion(<<TBytes, TBool>>)>>),
            repeat(Lit(IntV(4)),
                   switch(Lit(BoolV(TRUE)),
                          << Case("false", TInt, field(FmtI)),
                             Case("true", TInt, field(FmtH)) >>))),
       Decl("TestSwitchFail", "var3", TCls("DummyClass"),
            switch(Lit(BoolV(FALSE)),
                   << Case("false", TCls("DummyClass"), subfield),
                      Case("true", TCls("OtherClass"), subfield) >>)),
       Decl("TestSwitchFail", "var4", AUnion(<<TInt, TBool>>),
            switch(Lit(IntV(4)),
                   << Case("_0", TInt, field(FmtI)),
                      Case("_2", TBool, field(FmtH)),
                      Case("_4", AGeneric("list", <<TInt>>),
                           repeat(Lit(IntV(2)), field(FmtH))) >>)) >>

\* tests/test_validation_cond.py: TestValidationCondFail, one field of each
\* rejected kind, and tests/test_validation.py: TestValidationFail
TestCondFailFields ==
    << Decl("TestCondFail", "var1", TInt, cond(Lit(BoolV(TRUE)), field(FmtI))),
       Decl("TestCondFail", "var2", AUnion(<<TInt, TBool>>),
            cond(Lit(BoolV(TRUE)), field(FmtI))),
       Decl("TestCondFail", "var3", AUnion(<<TInt, TCls("DummyClass")>>),
            cond_if_not(Lit(BoolV(TRUE)), Lit(IntV(0)), field(FmtI))),
       Decl("TestCondFail", "var4", TInt, repeat(Lit(IntV(4)), field(FmtI))),
       Decl("TestCondFail", "var5", TCls("list"),
            repeat(Lit(IntV(4)), field(FmtI))) >>

Fields(cls) ==
    CASE cls = "Pair" -> PairFields
      [] cls = "Padded" -> PaddedFields
      [] cls = "Aligned" -> AlignedFields
      [] cls = "Counted" -> CountedFields
      [] cls = "Cond" -> CondFields
      [] cls = "CondElse" -> CondElseFields
      [] cls = "Sw" -> SwFields
      [] cls = "SwNoDef" -> SwNoDefFields
      [] cls = "Inner" -> InnerFields
      [] cls = "Outer" -> OuterFields
      [] cls = "Ck" -> CkFields
      [] cls = "Seek" -> SeekFields
      [] cls = "Bad" -> BadFields
      [] cls = "Built" -> BuiltFields
      [] cls = "BuiltOnce" -> BuiltOnceFields
      [] cls = "Fill" -> FillFields
      [] cls = "NoFill" -> NoFillFields
      [] cls = "FillNoDef" -> FillNoDefFields
      [] cls = "Late" -> LateFields
      [] cls = "TestUnion" -> TestUnionFields
      [] cls = "TestSpecial" -> TestSpecialFields
      [] cls = "TestMixed" -> TestMixedFields
      [] cls = "Chain" -> ChainFields
      [] cls = "Nest" -> NestFields
      [] cls = "IoTwice" -> IoTwiceFields
      [] cls = "IoEnd" -> IoEndFields
      [] cls = "IoRaw" -> IoRawFields
      [] cls = "Until" -> UntilFields
      [] cls = "While" -> WhileFields
      [] cls = "Loop" -> LoopFields
      [] cls = "SwInt" -> SwIntFields
      [] cls = "SwBool" -> SwBoolFields
      [] cls = "SwTruth" -> SwTruthFields
      [] cls = "SwEnum" -> SwEnumFields
      [] cls = "Act" -> ActFields
      [] cls = "Rewind" -> RewindFields
      [] cls = "Back" -> BackFields
      [] cls = "Fwd" -> FwdFields
      [] cls = "FwdAlign" -> FwdAlignFields
      [] cls = "CondLit" -> CondLitFields
      [] cls = "Budget" -> BudgetFields
      [] cls = "TestSwitchPass" -> TestSwitchPassFields
      [] cls = "TestSwitchFail" -> TestSwitchFailFields
      [] cls = "TestCondFail" -> TestCondFailFields
      [] OTHER -> <<>>

\* config.py: CONFIG, overridden per class by @datastruct(...)
CONFIG ==
    [endianness |-> "<", padding_pattern |-> PaddingPattern,
     padding_check |-> FALSE, repeat_fill |-> FALSE]

config(cls) ==
    CASE cls = "Padded" -> [CONFIG EXCEPT !.padding_pattern = 0]
      [] cls \in {"Fill", "FillNoDef"} -> [CONFIG EXCEPT !.repeat_fill = TRUE]
      [] OTHER -> CONFIG

\* every Field object of a declaration: the field, its base, its cases
RECURSIVE FieldObjects(_)
RECURSIVE CaseObjects(_, _)
FieldObjects(f) ==
    <<f>> \o (IF f.hasbase THEN FieldObjects(f.base) ELSE <<>>)
          \o CaseObjects(f.cases, 1)
CaseObjects(cases, i) ==
    IF i > Len(cases) THEN <<>>
    ELSE FieldObjects(cases[i].field) \o CaseObjects(cases, i + 1)

RECURSIVE ClassObjects(_, _)
ClassObjects(fs, i) ==
    IF i > Len(fs) THEN <<>>
    ELSE FieldObjects(fs[i]) \o ClassObjects(fs, i + 1)

AllClasses ==
    << "Pair", "Padded", "Aligned", "Counted", "Cond", "CondElse", "Sw",
       "SwNoDef", "Inner", "Outer", "Ck", "Seek", "Bad", "Built", "TestSwitchPass",
       "TestSwitchFail", "TestCondFail",
     "BuiltOnce",
     "Fill",
     "NoFill",
     "FillNoDef",
     "Late",
     "TestUnion",
     "TestSpecial",
     "TestMixed",
     "Chain",
     "Nest",
     "IoTwice",
     "IoEnd",
     "IoRaw",
     "Until",
     "While",
     "Loop",
     "SwInt",
     "SwBool",
     "SwTruth",
     "SwEnum",
     "Act",
     "Rewind",
     "Back",
     "Fwd",
     "FwdAlign",
     "CondLit",
     "Budget" >>

\* the classes whose Fields a traversal of class c touches
ClassesOf(c) ==
    CASE c = "Outer" -> <<"Outer", "Inner">>
      [] c = "Back" -> <<"Back", "Rewind">>
      [] OTHER -> <<c>>

RECURSIVE ObjectsOf(_, _)
ObjectsOf(cs, i) ==
    IF i > Len(cs) THEN <<>>
    ELSE ClassObjects(Fields(cs[i]), 1) \o ObjectsOf(cs, i + 1)

\* the mutable attributes of the Fields of class c as the class definitions
\* leave them: field.type is the annotation (None for a wrapped Field), the
\* meta is not validated, and the read of the meta's IOHook object (io) is
\* not a functools.partial
FreshStore(c) ==
    LET objs == ObjectsOf(ClassesOf(c), 1)
        at(id) == objs[CHOOSE i \in 1..Len(objs) : objs[i].id = id]
    IN  [id \in {objs[i].id : i \in 1..Len(objs)} |->
            [type |-> at(id).ann, types |-> TNoneType,
             validated |-> FALSE, name |-> at(id).name,
             io |-> at(id).io, partial |-> FALSE]]

\* ------------------------------------------------------------------------
\* utils/validation.py: the schema validator.  It works on the store fs of
\* the Fields' mutable attributes and returns [fs, err]; err is the message
\* of the exception raised, "" when none.
\* ------------------------------------------------------------------------
UNION_FIELDS == {"COND", "SWITCH"}
FMT_SPEC ==
    {"c", "b", "B", "?", "h", "H", "i", "I", "l", "L", "q", "Q", "n", "N",
     "e", "f", "d", "s"}

VOk(fs) == [fs |-> fs, err |-> ""]
VErr(fs, msg) == [fs |-> fs, err |-> msg]

\* utils/fmt.py: fmt_check ("" or the ValueError's message)
fmt_check(fmt) ==
    IF callable(fmt) \/ fmt.x.t = "int" THEN ""
    ELSE IF fmt.x.v.x \notin FMT_SPEC
         THEN "Format specifier is invalid or unsupported"
    ELSE ""

\* the class of the exception that carries a validator message
ValidationErrorType(msg) ==
    IF msg = "Format specifier is invalid or unsupported" THEN "ValueError"
    ELSE "TypeError"

validate_ellipsis_usage_unchecked(f, types) == "False"
\* "True", "False" or the TypeError's message
validate_ellipsis_usage(f, types) ==
    IF ~f.public
    THEN IF types # TEllipsisType
         THEN "Use Ellipsis (...) for special fields"
         ELSE IF ~f.hasbase THEN "True"
         ELSE IF f.ftype # "COND"
              THEN "Only cond() and switch() can wrap special fields"
         ELSE "False"
    ELSE IF types = TEllipsisType /\ f.ftype \notin UNION_FIELDS
         THEN "Cannot use Ellipsis (...) for standard fields"
    ELSE "False"

validate_property_type_usage_simple(f, types) == [vt |-> "SIMPLE", err |-> ""]
\* the ValidType, or the TypeError's message in err
validate_property_type_usage(f, types) ==
    LET is_tuple == types.k = "tuple"
        R(vt) == [vt |-> vt, err |-> ""]
        E(msg) == [vt |-> "", err |-> msg]
    IN  IF is_tuple /\ InSeq(TTrue, types.a)
        THEN IF types.a[1] # TList
             THEN E("Unknown generic type; only list[...] is supported")
             ELSE IF f.ftype # "REPEAT" THEN E("Use repeat() for lists")
             ELSE R("REPEAT")
        ELSE IF is_tuple /\ Len(types.a) > 0
        THEN IF f.ftype \notin UNION_FIELDS
             THEN IF Len(types.a) > 2
                  THEN E("Use switch() for union of 3 or more types")
                  ELSE IF InSeq(TNoneType, types.a)
                       THEN E("Use cond() for optional types")
                  ELSE E("Use switch()/cond() for union/optional types")
             ELSE R("UNION")
        ELSE IF is_tuple
        THEN IF f.ftype \notin UNION_FIELDS
             THEN E("The 'Any' type can only be used with switch()/cond()")
             ELSE R("ANY")
        ELSE IF types = TEllipsisType
        THEN IF f.ftype \notin UNION_FIELDS
             THEN E("The Ellipsis (...) can only be used with switch()/cond()")
             ELSE R("ELLIPSIS")
        ELSE IF types = TNoneType THEN E("Cannot use None as field type")
        ELSE IF is_dataclass(types)
        THEN IF IsSet(f.fmt) /\ f.adapter = ""
             THEN E("Use subfield() for instances of DataStruct")
             ELSE R("SIMPLE")
        ELSE IF ~IsSet(f.fmt) /\ ~f.hasbase /\ f.ftype # "SWITCH"
             THEN E("Use field() for non-DataStruct types")
        ELSE R("SIMPLE")

validate_field(fs, f) ==
    IF IsSet(f.fmt) THEN VErr(fs, fmt_check(f.fmt)) ELSE VOk(fs)

\* list(types).remove(x): drop the first occurrence
RECURSIVE RemoveFirst(_, _)
RemoveFirst(q, x) ==
    IF Len(q) = 0 THEN q
    ELSE IF Head(q) = x THEN Tail(q)
    ELSE <<Head(q)>> \o RemoveFirst(Tail(q), x)

\* bool(t) of a decoded type: only the empty tuple is falsy
TypeTruthy(t) == ~(t.k = "tuple" /\ Len(t.a) = 0)

RECURSIVE field_validate(_, _)
RECURSIVE validate_repeat(_, _, _, _)
RECURSIVE validate_cond(_, _, _, _)
RECURSIVE validate_switch(_, _, _, _, _)

validate_repeat(fs, f, types, valid_type) ==
    IF valid_type # "REPEAT"
    THEN VErr(fs, "Can't use repeat() for a non-list field")
    ELSE IF MetaTruthy(f.base.builder) /\ ~f.base.always
    THEN VErr(fs, "Built fields inside repeat() are always built")
    ELSE IF ~TypeTruthy(types.a[3]) /\ f.base.ftype = "FIELD"
    THEN VErr(fs, "Lists of standard fields must be parameterized")
    ELSE field_validate(
            [fs EXCEPT ![f.base.id].name = fs[f.id].name,
                       ![f.id].type = types.a[1],
                       ![f.base.id].type = types.a[3]],
            f.base)

validate_cond(fs, f, types, valid_type) ==
    LET if_not_type ==
            IF callable(f.if_not) THEN NoneV
            ELSE IF f.if_not.x.t \in {"none", "ellipsis"} THEN TNoneType
            ELSE ClassOf(f.if_not.x)
        known == if_not_type # NoneV
        fs1 == [fs EXCEPT ![f.base.id].name = fs[f.id].name]
        Go(t) == field_validate([fs1 EXCEPT ![f.base.id].type = t], f.base)
        rest == RemoveFirst(types.a, TNoneType)
        s1 == is_dataclass(types.a[1])
        s2 == is_dataclass(types.a[2])
    IN  CASE valid_type = "UNION" ->
                IF known /\ ~InSeq(if_not_type, types.a)
                THEN VErr(fs1, "Type of 'if_not=' must be part of the union")
                ELSE IF f.base.ftype = "SWITCH" THEN Go(fs[f.id].type)
                ELSE IF InSeq(TNoneType, types.a)
                THEN Go(IF Len(rest) = 1 THEN rest[1] ELSE TTuple(rest))
                ELSE IF known
                THEN Go(RemoveFirst(types.a, if_not_type)[1])
                ELSE IF Len(types.a) = 2 /\ s1 /\ ~s2
                THEN Go(types.a[IF ~IsSet(f.base.fmt) THEN 1 ELSE 2])
                ELSE IF Len(types.a) = 2 /\ s2 /\ ~s1
                THEN Go(types.a[IF ~IsSet(f.base.fmt) THEN 2 ELSE 1])
                ELSE VErr(fs1, "Couldn't guess the wrapped field's type")
          [] valid_type = "ANY" -> Go(TAnyTuple)
          [] valid_type = "ELLIPSIS" -> Go(AEllipsis)
          [] valid_type = "SIMPLE" ->
                IF known /\ if_not_type # types
                THEN VErr(fs1, "Type of 'if_not=' different than the field type")
                ELSE Go(types)
          [] OTHER -> VErr(fs1, "No valid class/type found for cond()")

\* the loop over meta.fields from case i on; ell: Ellipsis among base_types
validate_switch(fs, f, types, i, ell) ==
    IF i > Len(f.cases)
    THEN IF types = TEllipsisType /\ ~ell
         THEN VErr(fs, "Cannot use Ellipsis (...) for switch() fields without special fields")
         ELSE VOk(fs)
    ELSE LET c == f.cases[i]
             base_type == decode_type(c.type)
             m == check_types_match(base_type, types)
             r == field_validate(
                    [fs EXCEPT ![c.field.id].name = fs[f.id].name,
                               ![c.field.id].type = base_type],
                    c.field)
         IN  IF m = "F"
             THEN VErr(fs, "Case field type does not fit the switch() field type")
             ELSE IF m = "E"
             THEN VErr(fs, "issubclass() arg must be a class")
             ELSE IF r.err # "" THEN r
             ELSE validate_switch(r.fs, f, types, i + 1,
                                  ell \/ base_type = TEllipsisType)

field_validate(fs, f) ==
    IF fs[f.id].validated THEN VOk(fs)
    ELSE LET types == decode_type(fs[f.id].type)
             fs1 == [fs EXCEPT ![f.id].types = types]
             done == [fs1 EXCEPT ![f.id].validated = TRUE]
             eu == validate_ellipsis_usage(f, types)
             vt == validate_property_type_usage(f, types)
             r == CASE f.ftype = "FIELD" -> validate_field(fs1, f)
                    [] f.ftype = "REPEAT" ->
                        validate_repeat(fs1, f, types, vt.vt)
                    [] f.ftype = "COND" -> validate_cond(fs1, f, types, vt.vt)
                    [] f.ftype = "SWITCH" ->
                        validate_switch(fs1, f, types, 1, FALSE)
                    [] OTHER -> VOk(fs1)
         IN  IF eu = "True" THEN VOk(done)
             ELSE IF eu # "False" THEN VErr(fs1, eu)
             ELSE IF vt.err # "" THEN VErr(fs1, vt.err)
             ELSE IF r.err # "" THEN r
             ELSE VOk([r.fs EXCEPT ![f.id].validated = TRUE])

\* ------------------------------------------------------------------------
\* The traversal state ("world") threaded through one call of pack, unpack
\* or sizeof:
\*   kind, buf, pos, size   the stream: "bytes" io.BytesIO, "file" another
\*                          byte stream, "sizing" utils/misc.py SizingIO
\*   hooks, hobj            Context.Global.hooks and the Checksum hooks' obj
\*   io_hook                Context.Global.io_hook, "" when None
\*   calls, rawlog          observers: the hook functions called by the raw
\*                          access under way; one entry per finished
\*                          non-empty raw access
\*   hlog, iolog            observers: one entry per HOOK / IO field
\*                          processed
\*   fr                     the stack of Contexts, innermost last
\*   fs                     the Fields' mutable attributes (see FreshStore)
\*   err                    the exception in flight: class, message and the
\*                          suffixes appended so far; typ = "" when none
\*   ret                    the value returned by the last operator
\*   short, fed, fedat      observers: some read returned fewer bytes than
\*                          asked for; the bytes passed to the hooks and the
\*                          position where the last hook started
\*   nread, exact, moved    observers: the number of bytes read; every
\*                          primitive and padding read so far re-encodes to
\*                          the bytes it read; some seek changed the position
\*   fpos                   observer: the position at which the loop of the
\*                          innermost pack / unpack took up its last field
\* ------------------------------------------------------------------------
EXCEPTIONS == {"ValueError", "TypeError", "AttributeError", "struct.error"}
HookNames == {"sum", "fsum", "inc", "dbl"}
\* the hooks made by checksum_start; the name of the checksum_field passed
\* as target= ("": no target)
IsChecksum(h) == h \in {"sum", "fsum"}
HookTarget(h) == IF h = "fsum" THEN "ck" ELSE ""
IoNames == {"x", "y"}
NoErr == [typ |-> "", msg |-> "", sfx |-> <<>>, depth |-> 0, schema |-> FALSE]

NewWorld(kind, buf, fs) ==
    [kind |-> kind, buf |-> buf, pos |-> 0, size |-> 0, hooks |-> <<>>,
     hobj |-> [h \in HookNames |-> 0], fr |-> <<>>, fs |-> fs, err |-> NoErr,
     ret |-> NoneV, short |-> FALSE, fed |-> <<>>, fedat |-> 0, nread |-> 0,
     exact |-> TRUE, moved |-> FALSE, fpos |-> 0, io_hook |-> "",
     calls |-> <<>>, rawlog |-> <<>>, hlog |-> <<>>, iolog |-> <<>>,
     rlog |-> <<>>, swlog |-> <<>>, acts |-> <<>>, clog |-> <<>>,
     tlog |-> <<>>, fwd |-> <<>>, cnd |-> <<>>]

Ok(w) == w.err.typ = ""
\* a local variable: Op applied to the value x
With(x, Op(_)) == Op(x)
\* sequencing: the statements Op follow on w unless an exception is in flight
Then(w, Op(_)) == IF Ok(w) THEN Op(w) ELSE w
\* err.depth: the number of struct frames open when the exception is raised
Raise(w, typ, msg) ==
    [w EXCEPT !.err = [typ |-> typ, msg |-> msg, sfx |-> <<>>,
                       depth |-> Len(w.fr), schema |-> FALSE]]
\* utils/validation.py: the TypeError / ValueError raised by a validator
RaiseValidation(w, msg) ==
    [w EXCEPT !.err = [typ |-> ValidationErrorType(msg), msg |-> msg,
                       sfx |-> <<>>, depth |-> Len(w.fr), schema |-> TRUE]]
Ret(w, x) == [w EXCEPT !.ret = x]
Cur(w) == w.fr[Len(w.fr)]
Sizing(w) == w.kind = "sizing"

SuffixOutermost(w, s) ==
    IF w.err.typ \in EXCEPTIONS /\ Len(w.fr) = 1
    THEN [w EXCEPT !.err.sfx = Append(@, s)]
    ELSE w
\* "e.args = (e.args[0] + suffix,); raise e" for the classes in EXCEPTIONS
Suffix(w, s) ==
    IF w.err.typ \in EXCEPTIONS THEN [w EXCEPT !.err.sfx = Append(@, s)]
    ELSE w

\* types.py: Context.__getattribute__: the Context's own items (the keyword
\* arguments), then self.self's attributes, then None
CtxGet(c, n) ==
    IF n \in DOMAIN c.kw THEN c.kw[n]
    ELSE IF n \in DOMAIN c.self THEN c.self[n]
    ELSE NoneV

\* types.py: Container.__getattribute__ on ctx.P: the item, or None
PGet(c, n) == IF n \in DOMAIN c.P THEN c.P[n] ELSE NoneV
\* ctx.P.<name> = x
SetP(w, name, x) == [w EXCEPT !.fr[Len(w.fr)].P = (name :> x) @@ @]
\* ctx.P.pop(name, None)
PopP(w, name) ==
    [w EXCEPT !.fr[Len(w.fr)].P = [n \in DOMAIN @ \ {name} |-> @[n]]]

\* utils/context.py: evaluate; the result, or RaiseV when the lambda raises
evaluate(w, v) ==
    LET c == Cur(w)
        x == CtxGet(c, v.n)
        r == CtxGet(w.fr[c.root], v.n)
    IN  CASE v.k = "none" -> NoneV
          [] v.k = "pi" -> PGet(c, "i")
          [] v.k = "pitem" -> PGet(c, "item")
          [] v.k = "pilt" ->
                IF PGet(c, "i").t \in {"int", "bool"}
                THEN BoolV(NumOf(PGet(c, "i")) < v.x.v)
                ELSE RaiseV("TypeError")
          [] v.k = "pitemeq" -> BoolV(PyEq(PGet(c, "item"), v.x))
          [] v.k = "lit" -> v.x
          [] v.k = "attr" -> x
          [] v.k = "len" ->
                IF x.t \in {"list", "bytes"} THEN IntV(Len(x.v))
                ELSE RaiseV("TypeError")
          [] v.k = "eq" -> BoolV(PyEq(x, v.x))
          [] v.k = "rootor" -> IF Truthy(r) THEN r ELSE v.x
          [] v.k = "parent" ->
                IF Len(w.fr) = 1 THEN RaiseV("AttributeError")
                ELSE CtxGet(w.fr[Len(w.fr) - 1], v.n)

\* utils/context.py: build_context: push the Context of one struct frame
\* (io_offset is the stream's tell(); see pack and unpack for the tell() of
\* an attached IOHook)
\* A GlobalContext is named by the frame of its root: build_context makes
\* the first Context built on a GlobalContext its root.  clog records the
\* Context as built: its frame, its GlobalContext, its parent link
\* (0: None) and the items of its Params beyond the helpers.
build_context(w, cls, self, kwargs, root) ==
    [w EXCEPT !.fr = Append(@,
        [cls |-> cls, self |-> self, kw |-> kwargs, off |-> w.pos,
         root |-> root, hasck |-> FALSE, ck |-> NoneV, haspre |-> FALSE,
         pre |-> NoneV, P |-> EmptyMap, ctx |-> Len(w.clog) + 1]),
              !.clog = Append(@,
        [depth |-> Len(w.fr) + 1, glob |-> root, parent |-> Len(w.fr),
         P |-> EmptyMap, hooks |-> w.hooks, io_hook |-> w.io_hook,
         at |-> w.pos])]

PopContext(w) == [w EXCEPT !.fr = SubSeq(@, 1, Len(@) - 1)]
SetAttrEllipsis(w, name, x) ==
    [w EXCEPT !.fr[Len(w.fr)].self = (name :> Ell) @@ @]
\* main.py: pack: setattr(self, field.name, value)
SetAttr(w, name, x) ==
    [w EXCEPT !.fr[Len(w.fr)].self = (name :> x) @@ @]
\* main.py: unpack: values[field.name] = value
SetItem(w, name, x) ==
    [w EXCEPT !.fr[Len(w.fr)].self = (name :> x) @@ @]
GetSelf(w, name) ==
    IF name \in DOMAIN Cur(w).self THEN Cur(w).self[name] ELSE Ell

\* Context.Global.tell / Params.tell (utils/context.py)
G_tell(w) == w.pos
P_tell(w) == w.pos - Cur(w).off

\* what ctx.P.tell() returns between two fields, with the stream position
\* and the Context (its index in clog) it belongs to
TellEvent(w) ==
    IF w.io_hook # "" THEN w
    ELSE [w EXCEPT !.tlog = Append(@, [ctx |-> Cur(w).ctx, tell |-> P_tell(w),
                                       pos |-> w.pos])]

\* io.BytesIO.seek / SizingIO.seek (utils/misc.py), whence = SEEK_SET
io_seek(w, p) ==
    IF Sizing(w)
    THEN [w EXCEPT !.pos = p, !.size = Max(p, w.size),
                   !.moved = @ \/ p # w.pos]
    ELSE [w EXCEPT !.pos = p, !.moved = @ \/ p # w.pos]

\* io.BytesIO.write: overwrite at pos, zero-filling a gap left by seek
io_write(w, s) ==
    LET gap == IF w.pos > Len(w.buf) THEN Zeros(w.pos - Len(w.buf)) ELSE <<>>
    IN  [w EXCEPT !.buf = Take(w.buf, w.pos) \o gap \o s
                          \o Drop(w.buf, w.pos + Len(s)),
                  !.pos = w.pos + Len(s)]

\* utils/misc.py: SizingIO.write
SizingIO_write(w, n) ==
    [w EXCEPT !.pos = w.pos + n, !.size = Max(w.pos + n, w.size)]

RECURSIVE Sum(_)
Sum(q) == IF Len(q) = 0 THEN 0 ELSE Head(q) + Sum(Tail(q))

RECURSIVE Count(_, _)
Count(x, q) ==
    IF Len(q) = 0 THEN 0
    ELSE (IF Head(q) = x THEN 1 ELSE 0) + Count(x, Tail(q))

\* the hook objects of the schemas:
\*   "sum"  fields/helper.py: checksum_start(init=0, update=byte sum,
\*          end=identity): Checksum.update feeds the sum and returns the
\*          value; read and write are those of types.py Hook (return None)
\*   "fsum" the same made with target=ck, ck being the checksum_field
\*   "inc"  hook(update=lambda v, ctx: bytes((b + 1) % 256 for b in v),
\*               read=lambda v, ctx: bytes((b + 5) % 256 for b in v))
\*   "dbl"  hook(update=lambda v, ctx: bytes((2 * b) % 256 for b in v),
\*               write=lambda v, ctx: bytes((2 * b) % 256 for b in v))
checksum_update(obj, s) == (obj + Sum(s)) % 256
EachByte(s, Op(_)) == [i \in 1..Len(s) |-> Op(s[i]) % 256]

\* getattr(hook, action, None) is set
hook_has(h, action) ==
    CASE IsChecksum(h) -> TRUE
      [] h = "inc" -> action \in {"update", "read"}
      [] h = "dbl" -> action \in {"update", "write"}

\* func(data, ctx): the value returned
hook_func(h, action, data) ==
    CASE IsChecksum(h) -> IF action = "update" THEN BytesV(data) ELSE NoneV
      [] h = "inc" ->
            IF action = "update"
            THEN BytesV(EachByte(data, LAMBDA b : b + 1))
            ELSE BytesV(EachByte(data, LAMBDA b : b + 5))
      [] h = "dbl" -> BytesV(EachByte(data, LAMBDA b : 2 * b))

\* utils/context.py: hook_do, the loop over ctx.G.hooks from index i on
RECURSIVE hook_do_from(_, _, _, _)
hook_do_from(w, action, data, i) ==
    IF i > Len(w.hooks) THEN Ret(w, BytesV(data))
    ELSE IF ~hook_has(w.hooks[i], action)
    THEN hook_do_from(w, action, data, i + 1)
    ELSE With(hook_func(w.hooks[i], action, data), LAMBDA value :
         hook_do_from(
            [w EXCEPT !.hobj[w.hooks[i]] =
                          IF IsChecksum(w.hooks[i]) /\ action = "update"
                          THEN checksum_update(@, data) ELSE @,
                      !.calls = Append(@, [i |-> i, action |-> action])],
            action, IF value.t = "none" THEN data ELSE value.v, i + 1))

\* utils/context.py: hook_do; the data returned is in ret
hook_do(w, action, data) == hook_do_from(w, action, data, 1)

\* the type error of a call through the partial that io_apply installs:
\* types.py IOHook.read / write / seek / tell take no context
IOHookCall(w, name) ==
    Raise(w, "TypeError", name \o "() takes more positional arguments")

\* (ctx.G.io_hook or ctx.G.io).read(n)
raw_read(w, n) ==
    LET s == SubSeq(w.buf, w.pos + 1, Min(w.pos + n, Len(w.buf)))
    IN  IF w.io_hook # "" THEN IOHookCall(w, "read")
        ELSE [w EXCEPT !.pos = w.pos + Len(s),
                       !.ret = BytesV(s),
                       !.short = w.short \/ Len(s) < n,
                       !.nread = w.nread + Len(s)]

\* (ctx.G.io_hook or ctx.G.io).write(s)
raw_write(w, s) ==
    IF w.io_hook # "" THEN IOHookCall(w, "write") ELSE io_write(w, s)

\* what ctx_write would put on the stream for the data s
WriteImage(w, s) ==
    With(hook_do(w, "update", s), LAMBDA u : hook_do(u, "write", u.ret.v).ret.v)

RawAccess(w, dir, at, s, x) ==
    [dir |-> dir, chain |-> w.hooks, at |-> at, data |-> s, out |-> x.ret.v,
     calls |-> x.calls, nio |-> Len(w.iolog)]

ctx_read_update_last(w, n) ==
    IF n = 0 THEN Ret(w, BytesV(<<>>))
    ELSE Then(raw_read(w, n), LAMBDA s :
         With(hook_do([s EXCEPT !.calls = <<>>], "read", s.ret.v), LAMBDA u :
         With(hook_do(u, "update", u.ret.v), LAMBDA x :
              [x EXCEPT !.fed = IF Len(w.hooks) > 0 THEN @ \o s.ret.v ELSE @,
                        !.exact = @ /\ WriteImage(w, x.ret.v) = s.ret.v,
                        !.rawlog = Append(@, RawAccess(w, "read", w.pos,
                                                       s.ret.v, x))])))
\* utils/context.py: ctx_read
ctx_read(w, n) ==
    IF n = 0 THEN Ret(w, BytesV(<<>>))
    ELSE Then(raw_read(w, n), LAMBDA s :
         With(hook_do([s EXCEPT !.calls = <<>>], "update", s.ret.v), LAMBDA u :
         With(hook_do(u, "read", u.ret.v), LAMBDA x :
              [x EXCEPT !.fed = IF Len(w.hooks) > 0 THEN @ \o s.ret.v ELSE @,
                        !.exact = @ /\ WriteImage(w, x.ret.v) = s.ret.v,
                        !.rawlog = Append(@, RawAccess(w, "read", w.pos,
                                                       s.ret.v, x))])))

ctx_write_short(w, s) ==
    IF Len(s) = 0 THEN w
    ELSE With(hook_do([w EXCEPT !.calls = <<>>], "update", s), LAMBDA u :
         With(hook_do(u, "write", u.ret.v), LAMBDA x :
         Then(raw_write(x, SubSeq(x.ret.v, 1, Len(s) - 1)), LAMBDA r :
              [r EXCEPT !.ret = w.ret,
                        !.fed = IF Len(w.hooks) > 0 THEN @ \o s ELSE @,
                        !.rawlog = Append(@, RawAccess(w, "write", w.pos,
                                                       s, x))])))
\* utils/context.py: ctx_write
ctx_write(w, s) ==
    IF Len(s) = 0 THEN w
    ELSE With(hook_do([w EXCEPT !.calls = <<>>], "update", s), LAMBDA u :
         With(hook_do(u, "write", u.ret.v), LAMBDA x :
         Then(raw_write(x, x.ret.v), LAMBDA r :
              [r EXCEPT !.ret = w.ret,
                        !.fed = IF Len(w.hooks) > 0 THEN @ \o s ELSE @,
                        !.rawlog = Append(@, RawAccess(w, "write", w.pos,
                                                       s, x))])))

checksum_validate_skip(w, value, calc) == w
\* fields/helper.py: _checksum_validate
checksum_validate(w, value, calc) ==
    IF ~PyEq(value, calc) THEN Raise(w, "ValueError", "Checksum invalid")
    ELSE w

\* list.remove(x): the first item equal to x is removed
RemoveHook(q, h) ==
    LET i == CHOOSE i \in 1..Len(q) :
                q[i] = h /\ \A j \in 1..(i - 1) : q[j] # h
    IN  SubSeq(q, 1, i - 1) \o SubSeq(q, i + 1, Len(q))

\* evaluate(ctx, hook.end): fields/helper.py Checksum.end; the hooks made
\* of inline lambdas have no end
hook_end_call(w, h) ==
    LET calc == IntV(w.hobj[h])
        w1 == [w EXCEPT !.fr[Len(w.fr)].hasck = TRUE,
                        !.fr[Len(w.fr)].ck = calc]
    IN  IF ~IsChecksum(h) THEN w
        ELSE IF Cur(w).haspre THEN checksum_validate(w1, Cur(w).pre, calc)
        ELSE w1

HookEvent(w, f, after) ==
    [end |-> f.end, hook |-> f.hook, before |-> w.hooks, after |-> after]

\* utils/context.py: hook_apply (evaluate(ctx, hook.init): Checksum.init)
hook_apply(w, f) ==
    IF ~f.end
    THEN [w EXCEPT !.hobj[f.hook] = IF IsChecksum(f.hook) THEN 0 ELSE @,
                   !.hooks = Append(@, f.hook),
                   !.fedat = w.pos,
                   !.hlog = Append(@, HookEvent(w, f, Append(w.hooks, f.hook)))]
    ELSE IF ~InSeq(f.hook, w.hooks)
    THEN Raise(w, "ValueError", "list.remove(x): x not in list")
    ELSE hook_end_call(
            [w EXCEPT !.hooks = RemoveHook(@, f.hook),
                      !.hlog = Append(@, HookEvent(w, f,
                                          RemoveHook(w.hooks, f.hook)))],
            f.hook)

\* isinstance(io.read, partial), for the IOHook object x
IoPartial(fs, x) == \E id \in DOMAIN fs : fs[id].io = x /\ fs[id].partial
SetPartial(fs, x, b) ==
    [id \in DOMAIN fs |->
        IF fs[id].io = x THEN [fs[id] EXCEPT !.partial = b] ELSE fs[id]]

IoEvent(w, f, after) ==
    [end |-> f.end, io |-> f.io, before |-> w.io_hook, after |-> after,
     raised |-> after = "raise"]

io_apply_replace(w, f) ==
    [w EXCEPT !.io_hook = IF f.end THEN "" ELSE f.io,
              !.fs = SetPartial(@, f.io, ~f.end),
              !.iolog = Append(@, [IoEvent(w, f, IF f.end THEN "" ELSE f.io)
                                   EXCEPT !.raised = FALSE])]
\* utils/context.py: io_apply (types.py: IOHook.init and IOHook.end
\* return None)
io_apply(w, f) ==
    IF ~f.end
    THEN IF w.io_hook # ""
         THEN Raise([w EXCEPT !.iolog = Append(@,
                        [IoEvent(w, f, "raise") EXCEPT !.after = w.io_hook])],
                    "RuntimeError", "IO hook already set")
         ELSE IF IoPartial(w.fs, f.io)
         THEN Raise([w EXCEPT !.iolog = Append(@,
                        [IoEvent(w, f, "raise") EXCEPT !.after = w.io_hook])],
                    "RuntimeError", "IO hook not ended - use io_end()")
         ELSE [w EXCEPT !.io_hook = f.io,
                        !.fs = SetPartial(@, f.io, TRUE),
                        !.iolog = Append(@, IoEvent(w, f, f.io))]
    ELSE [w EXCEPT !.io_hook = "",
                   !.fs = SetPartial(@, f.io, FALSE),
                   !.iolog = Append(@, IoEvent(w, f, ""))]

\* fields/helper.py: checksum_field: Checksum.decode
adapter_decode(w, f, value) ==
    IF f.adapter = "" THEN Ret(w, value)
    ELSE IF ~Cur(w).hasck
    THEN Ret([w EXCEPT !.fr[Len(w.fr)].haspre = TRUE,
                       !.fr[Len(w.fr)].pre = value], value)
    ELSE Ret(checksum_validate(w, value, Cur(w).ck), value)

\* utils/fmt.py: fmt_evaluate
fmt_evaluate(w, fmt_val, endianness) ==
    LET fmt == evaluate(w, fmt_val)
    IN  IF IsRaise(fmt) THEN fmt
        ELSE IF fmt.t = "int" THEN fmt
        ELSE IF ~Truthy(fmt) THEN RaiseV("ValueError")
        \* fmt[0] of a value that is no string
        ELSE IF fmt.t # "fmt" THEN RaiseV("TypeError")
        ELSE IF fmt.v.x \notin FMT_SPEC THEN RaiseV("ValueError")
        ELSE IF fmt.v.e = "" THEN FmtV(endianness, fmt.v.c, fmt.v.x)
        ELSE fmt

\* utils/fields.py: field_do_seek (whence SEEK_SET or SEEK_CUR)
field_do_seek(w, f) ==
    LET offset == evaluate(w, f.offset)
    IN  IF IsRaise(offset) THEN Raise(w, offset.v, "")
        ELSE IF w.io_hook # "" THEN IOHookCall(w, "seek")
        ELSE IF f.whence = "CUR" THEN io_seek(w, w.pos + offset.v)
        ELSE IF f.absolute THEN io_seek(w, offset.v)
        ELSE io_seek(w, offset.v + Cur(w).off)

\* utils/fields.py: field_get_padding: [length, padding, check] in ret
field_get_padding(w, cfg, f) ==
    LET tell == IF f.absolute THEN G_tell(w) ELSE P_tell(w)
        v == IF MetaTruthy(f.length) THEN evaluate(w, f.length)
             ELSE IF MetaTruthy(f.modulus) THEN evaluate(w, f.modulus)
             ELSE evaluate(w, f.offset)
        length == IF MetaTruthy(f.length) THEN v.v
                  ELSE IF MetaTruthy(f.modulus) THEN pad_up(tell, v.v)
                  ELSE v.v - tell
        check == IF f.check.t # "none" THEN f.check.v ELSE cfg.padding_check
        pattern == IF f.pattern.t # "none" THEN f.pattern.v
                   ELSE cfg.padding_pattern
    IN  IF ~MetaTruthy(f.length) /\ ~MetaTruthy(f.modulus)
           /\ ~MetaTruthy(f.offset)
        THEN Raise(w, "ValueError", "Unknown padding type")
        ELSE IF IsRaise(v) THEN Raise(w, v.v, "")
        ELSE IF ~MetaTruthy(f.length) /\ w.io_hook # ""
        THEN IOHookCall(w, "tell")
        ELSE IF ~MetaTruthy(f.length) /\ ~MetaTruthy(f.modulus) /\ length < 0
        THEN Raise(w, "ValueError", "Padding offset less than current tell() offset")
        ELSE IF Sizing(w)
        THEN Ret(w, [length |-> length, padding |-> <<>>, check |-> FALSE])
        ELSE Ret(w, [length |-> length, padding |-> repstr(pattern, length),
                     check |-> check])

SwitchKeys_value_first(key) ==
    (IF key.t = "enum" THEN <<key.v.value, StrV(key.v.name)>> ELSE <<>>)
    \o (IF key.t = "bool" THEN <<StrV(IF key.v THEN "true" ELSE "false")>>
        ELSE <<>>)
    \o (IF key.t \in {"int", "bool"} THEN <<StrV("_" \o FormatInt(key))>>
        ELSE <<>>)
    \o <<key>>
\* the keys probed by field_switch_base, in order
SwitchKeys(key) ==
    <<key>>
    \o (IF key.t \in {"int", "bool"} THEN <<StrV("_" \o FormatInt(key))>>
        ELSE <<>>)
    \o (IF key.t = "bool" THEN <<StrV(IF key.v THEN "true" ELSE "false")>>
        ELSE <<>>)
    \o (IF key.t = "enum" THEN <<StrV(key.v.name), key.v.value>> ELSE <<>>)

\* "key in meta.fields" and meta.fields[key]: the index of the case, or 0
CaseIndex(cases, k) ==
    IF \E i \in 1..Len(cases) : DictKeyEq(cases[i].kv, k)
    THEN CHOOSE i \in 1..Len(cases) : DictKeyEq(cases[i].kv, k)
    ELSE 0

RECURSIVE FirstCase(_, _)
FirstCase(cases, keys) ==
    IF Len(keys) = 0 THEN CaseIndex(cases, StrV("default"))
    ELSE IF CaseIndex(cases, Head(keys)) # 0 THEN CaseIndex(cases, Head(keys))
    ELSE FirstCase(cases, Tail(keys))

field_switch_base_first(w, f) ==
    LET key == evaluate(w, f.key)
        i == FirstCase(f.cases, SwitchKeys(key))
    IN  IF IsRaise(key) THEN 0 ELSE IF i = 0 THEN 1 ELSE i
\* utils/fields.py: field_switch_base: the index of the selected case,
\* 0 when the ValueError "Unmapped field type" is raised
field_switch_base(w, f) ==
    LET key == evaluate(w, f.key)
    IN  IF IsRaise(key) THEN 0 ELSE FirstCase(f.cases, SwitchKeys(key))

\* the function of an ACTION field was called and returned x
ActionEvent(w, f, x) ==
    [w EXCEPT !.acts = Append(@, [id |-> f.name, x |-> x])]

\* the case a SWITCH field selected for the discriminant key (0: none)
SwitchEvent(w, f, key, idx) ==
    [w EXCEPT !.swlog = Append(@, [id |-> f.name, key |-> key, case |-> idx])]

\* ------------------------------------------------------------------------
\* main.py: the traversal engine.  Every operator takes the world and
\* returns it with ret set, or with err set when an exception is raised.
\* pack's field_names, ctx_out and tell_offset keep their defaults.
\* ------------------------------------------------------------------------
EvalKwargs(w, f) ==
    [n \in {f.kwargs[i].name : i \in 1..Len(f.kwargs)} |->
        evaluate(w, f.kwargs[CHOOSE i \in 1..Len(f.kwargs) :
                                f.kwargs[i].name = n].value)]

IfNotSet(f) == ~(f.if_not.k = "lit" /\ f.if_not.x.t = "ellipsis")

\* bytes() / int() / bool(): the class called without arguments
ZeroOf(t) ==
    CASE t.n = "int" -> IntV(0)
      [] t.n = "bool" -> BoolV(FALSE)
      [] t.n = "bytes" -> BytesV(<<>>)
      [] OTHER -> ListV(<<>>)

RECURSIVE write_field(_, _, _)
RECURSIVE write_repeat(_, _, _, _, _, _)
RECURSIVE write_value(_, _, _)
RECURSIVE sizeof_value(_, _, _)
RECURSIVE pack(_, _, _, _)
RECURSIVE pack_fields(_, _, _)
RECURSIVE read_field(_, _)
RECURSIVE read_repeat(_, _, _, _, _, _)
RECURSIVE read_value(_, _, _)
RECURSIVE unpack(_, _, _, _)
RECURSIVE unpack_fields(_, _, _)
RECURSIVE post_init(_, _, _)
RECURSIVE post_init_fields(_, _, _, _)
RECURSIVE field_get_default(_, _)

\* utils/fields.py: field_get_default
field_get_default(w, f) ==
    LET types == w.fs[f.id].types
        n == f.count.x.v
        bt == w.fs[f.base.id].type
    IN  CASE f.ftype = "FIELD" ->
                IF MetaTruthy(f.builder) THEN Ret(w, Ell)
                ELSE IF f.default.t # "ellipsis" THEN Ret(w, f.default)
                ELSE IF types.k # "cls"
                THEN Raise(w, "TypeError", "issubclass() arg 1 must be a class")
                ELSE IF types.n \in StructClasses
                THEN post_init(w, types.n, EmptyMap)
                ELSE Ret(w, NoneV)
          [] f.ftype = "REPEAT" ->
                IF f.count.k = "lit" /\ f.count.x.t = "int"
                THEN IF f.base.default.t # "ellipsis"
                     THEN Ret(w, ListV([i \in 1..n |-> f.base.default]))
                     ELSE IF bt.k = "cls" /\ n > 0
                     THEN Then(IF bt.n \in StructClasses
                               THEN post_init(w, bt.n, EmptyMap)
                               ELSE Ret(w, ZeroOf(bt)),
                               LAMBDA one :
                                 Ret(one, ListV([i \in 1..n |-> one.ret])))
                     ELSE Ret(w, ListV(<<>>))
                ELSE Ret(w, ListV(<<>>))
          [] f.ftype = "COND" -> field_get_default(w, f.base)
          [] f.ftype = "SWITCH" -> Ret(w, Ell)
          [] OTHER -> Ret(w, NoneV)

\* main.py: DataStruct.__post_init__ over the fields from i on; m is the
\* instance's attributes so far
post_init_fields(w, fields, i, m) ==
    IF i > Len(fields) THEN Ret(w, [t |-> "attrs", v |-> m])
    ELSE With(field_validate(w.fs, fields[i]), LAMBDA v :
         With([w EXCEPT !.fs = v.fs], LAMBDA w1 :
         LET f == fields[i]
             value == IF f.name \in DOMAIN m THEN m[f.name] ELSE f.default
             types == w1.fs[f.id].types
             ct == check_value_type(value, types)
             Next_(ww, x) ==
                post_init_fields(ww, fields, i + 1, (f.name :> x) @@ m)
         IN  IF v.err # ""
             THEN Suffix(RaiseValidation(w1, v.err), "initializing " \o f.name)
             ELSE IF value.t # "ellipsis"
             THEN IF types # TAnyTuple /\ ct = "E"
                  THEN Raise(w1, "TypeError", "issubclass() arg 2 must be a class")
                  ELSE IF types # TAnyTuple /\ ct = "F" /\ f.adapter # ""
                  THEN Raise(w1, "ValueError", "Couldn't build the default value")
                  ELSE IF types # TAnyTuple /\ ct = "F"
                  THEN Raise(w1, "TypeError", "Wrong field type")
                  ELSE Next_(w1, value)
             ELSE IF ~f.public THEN Next_(w1, value)
             ELSE Then(field_get_default(w1, f), LAMBDA d :
                  IF d.ret.t # "none" THEN Next_(d, d.ret)
                  ELSE Raise(w1, "ValueError", "Cannot create an instance"))))

\* cls(**values): the dataclass __init__ followed by __post_init__
post_init(w, cls, values) ==
    Then(post_init_fields(w, Fields(cls), 1, values), LAMBDA r :
         Ret(r, StructV(cls, r.ret.v)))

\* main.py: DataStruct._write_value
write_value(w, f, value) ==
    IF value.t = "struct" THEN pack(w, value, EvalKwargs(w, f), TRUE)
    ELSE With(fmt_evaluate(w, f.fmt, config(Cur(w).cls).endianness),
              LAMBDA fmt :
         IF IsRaise(fmt) THEN Raise(w, fmt.v, "")
         ELSE IF fmt.t = "int" /\ value.t = "bytes"
         THEN IF Len(value.v) < fmt.v
              THEN Raise(w, "ValueError", "Not enough bytes to write")
              ELSE ctx_write(w, Take(value.v, fmt.v))
         ELSE IF fmt.t = "int"
         THEN Raise(w, "TypeError", "Struct() argument 1 must be a str")
         ELSE With(StructPack(fmt.v, value), LAMBDA packed :
              IF IsRaise(packed) THEN Raise(w, packed.v, "")
              ELSE ctx_write(w, packed.v)))

\* main.py: DataStruct._sizeof_value
sizeof_value(w, f, value) ==
    IF value.t = "struct" THEN pack(w, value, EvalKwargs(w, f), TRUE)
    ELSE With(fmt_evaluate(w, f.fmt, config(Cur(w).cls).endianness),
              LAMBDA fmt :
         IF IsRaise(fmt) THEN Raise(w, fmt.v, "")
         ELSE IF fmt.t = "int" THEN SizingIO_write(w, fmt.v)
         ELSE SizingIO_write(w, CalcSize(fmt.v.x)))

\* main.py: DataStruct.pack with parent=None, field_names=names and
\* tell_offset, on the stream of sub; the Context is left in place
\* (ctx_out[0])
pack_named(sub, cls, self, kwargs, names, tell_offset) ==
    With(build_context(sub, cls, self, kwargs, Len(sub.fr) + 1), LAMBDA c :
    pack_fields(IF tell_offset # 0 THEN io_seek(c, tell_offset + Cur(c).off)
                ELSE c,
                SelectSeq(Fields(cls), LAMBDA g : g.name \in names), 1))

\* ds.sizeof(name) called inside a traversal of ds: a pack of the one field
\* on a new SizingIO; ret is the size.  The instance, the hook objects and
\* the Fields are those of the caller.
sizeof_field(w, name) ==
    With(pack_named([NewWorld("sizing", <<>>, w.fs) EXCEPT !.hobj = w.hobj],
                    Cur(w).cls, Cur(w).self, EmptyMap, {name}, 0),
         LAMBDA s :
    IF ~Ok(s) THEN [w EXCEPT !.err = s.err, !.fs = s.fs]
    ELSE Ret([w EXCEPT !.fs = s.fs, !.hobj = s.hobj,
                       !.fr[Len(w.fr)].self = Cur(s).self], IntV(s.size)))

\* fields/helper.py: Checksum.encode: "data_pos += ds.sizeof(field.name)"
\* for the fields i..last, added to acc
RECURSIVE checksum_data_pos(_, _, _, _, _)
checksum_data_pos(w, F, i, last, acc) ==
    IF i > last THEN Ret(w, IntV(acc))
    ELSE Then(sizeof_field(w, F[i].name), LAMBDA s :
         checksum_data_pos(s, F, i + 1, last, acc + s.ret.v))

\* what the forward checksum did: the fake offset, the dummy stream after
\* the sub-pack, the bytes the sub-pack fed to the hooks, the checksum it
\* returned, and the real stream and hook stack before and after
ForwardEvent(w, sub, data_pos, after) ==
    [data_pos |-> data_pos, value |-> Cur(sub).ck, fed |-> sub.fed,
     subhooks |-> sub.hlog,
     before |-> [buf |-> w.buf, pos |-> w.pos, hooks |-> w.hooks,
                 io_hook |-> w.io_hook],
     after |-> [buf |-> after.buf, pos |-> after.pos, hooks |-> after.hooks,
                io_hook |-> after.io_hook]]

\* fields/helper.py: Checksum.encode, the sub-pack of the fields names on
\* the dummy stream "padding" placed at the real stream's position
checksum_encode_pack(w, f, names, data_pos) ==
    With(pack_named([NewWorld("bytes", <<>>, w.fs) EXCEPT !.hobj = w.hobj,
                                                          !.pos = w.pos],
                    Cur(w).cls, Cur(w).self, Cur(w).kw, names, data_pos),
         LAMBDA s :
    IF ~Ok(s) THEN [w EXCEPT !.err = s.err, !.fs = s.fs]
    ELSE
    With([w EXCEPT !.fs = s.fs, !.hobj = s.hobj,
                   !.fr[Len(w.fr)].self = Cur(s).self], LAMBDA w1 :
    Ret([w1 EXCEPT !.fwd = Append(@, ForwardEvent(w, s, data_pos, w1))],
        IF Cur(s).hasck THEN Cur(s).ck ELSE NoneV)))

\* fields/helper.py: checksum_field: Checksum.encode with no
\* "hook_checksum" in ctx.P: the search for the start and end fields whose
\* hook has target == this field (checksum_span: the end, the last field
\* before it, the first start and the last start), the sizes of the fields
\* before the start, and the sub-pack
checksum_span(F, name) ==
    With({i \in 1..Len(F) : F[i].ftype = "HOOK" /\ F[i].end
                            /\ HookTarget(F[i].hook) = name},
         LAMBDA Ends :
    With(IF Ends = {} THEN 0 ELSE CHOOSE i \in Ends : \A j \in Ends : i <= j,
         LAMBDA end :
    With(IF end = 0 THEN Len(F) ELSE end - 1, LAMBDA limit :
    With({i \in 1..limit : F[i].ftype = "HOOK"
                           /\ HookTarget(F[i].hook) = name},
         LAMBDA Starts :
    [end |-> end, limit |-> limit,
     first |-> IF Starts = {} THEN limit + 1
               ELSE CHOOSE i \in Starts : \A j \in Starts : i <= j,
     start |-> IF Starts = {} THEN 0
               ELSE CHOOSE i \in Starts : \A j \in Starts : i >= j]))))
checksum_encode(w, f) ==
    With(Fields(Cur(w).cls), LAMBDA F :
    With(checksum_span(F, f.name), LAMBDA sp :
    Then(checksum_data_pos(w, F, 1, sp.first - 1, 0), LAMBDA d :
    IF sp.start = 0
    THEN Raise(d, "ValueError", "Pass target=<checksum field> to checksum_start()")
    ELSE IF sp.start = sp.limit
    THEN Raise(d, "ValueError", "Checksum data fields not found")
    ELSE IF sp.end = 0
    THEN Raise(d, "ValueError", "checksum_end() field not found")
    ELSE checksum_encode_pack(d, f,
            {F[i].name : i \in sp.start..(sp.limit + 1)}, d.ret.v))))

\* fields/helper.py: checksum_field: Checksum.encode
adapter_encode(w, f, value) ==
    IF f.adapter = "" THEN Ret(w, value)
    ELSE IF ~Cur(w).hasck THEN checksum_encode(w, f)
    ELSE Ret(w, Cur(w).ck)

\* a COND field as the context shows it: the value of the condition and
\* whether the base field was passed over
CondEvent(w, f, x, skipped) ==
    [w EXCEPT !.cnd = Append(@, [id |-> f.name, x |-> x, at |-> w.pos,
                                 skipped |-> skipped])]

\* one step of a REPEAT loop as the stream and the context show it: the
\* loop test failing or a break ("end"), 'when' evaluated ("when"), the item
\* produced ("item", at = the position before the item), 'last' evaluated
RepeatEvent(w, f, count, end, ev, i, at, x) ==
    [w EXCEPT !.rlog = Append(@, [ev |-> ev, id |-> f.name, depth |-> Len(w.fr),
                                   i |-> i, at |-> at, pos |-> w.pos, x |-> x,
                                   P |-> Cur(w).P, off |-> Cur(w).off,
                                   count |-> count, end |-> end])]
\* "end = length and (ctx.P.tell() + length)"
repeat_end(w, length) ==
    IF ~Truthy(length) THEN length ELSE IntV(P_tell(w) + NumOf(length))
\* "(count is None or i < count) and (end is None or ctx.P.tell() < end)"
repeat_test(w, i, count, end) ==
    /\ (count.t = "none" \/ i < NumOf(count))
    /\ (end.t = "none" \/ P_tell(w) < NumOf(end))
\* leaving the loop: ctx.P.pop("i", None); return items
repeat_return(w, f, count, end, i, items) ==
    With(PopP(w, "i"), LAMBDA we :
    Ret(RepeatEvent(we, f, count, end, "end", i, we.pos, ListV(items)), ListV(items)))

\* main.py: DataStruct._write_field, the REPEAT loop from index i on
write_repeat(w, f, items, i, count, end) ==
    IF ~repeat_test(w, i, count, end) THEN repeat_return(w, f, count, end, i, items)
    ELSE IF i >= MaxIter THEN Raise(w, "NoTermination", "")
    ELSE
    With(SetP(w, "i", IntV(i)), LAMBDA wi :
    With(evaluate(wi, f.when), LAMBDA when :
    IF IsRaise(when) THEN Raise(wi, when.v, "")
    ELSE
    With(RepeatEvent(wi, f, count, end, "when", i, wi.pos, when), LAMBDA ww :
    IF IsFalse(when) THEN repeat_return(ww, f, count, end, i, items)
    ELSE IF ~MetaTruthy(f.base.builder) /\ i >= Len(items)
    THEN Raise(ww, "ValueError", "No more items to pack!")
    ELSE
    Then(write_field(ww, f.base,
                     IF MetaTruthy(f.base.builder) THEN Ell ELSE items[i + 1]),
         LAMBDA w1 :
    With(IF Len(items) <= i THEN Append(items, w1.ret)
         ELSE [items EXCEPT ![i + 1] = w1.ret], LAMBDA items1 :
    With(SetP(RepeatEvent(w1, f, count, end, "item", i, ww.pos, w1.ret), "item", w1.ret),
         LAMBDA wt :
    With(evaluate(wt, f.last), LAMBDA last :
    IF IsRaise(last) THEN Raise(wt, last.v, "")
    ELSE
    With(PopP(RepeatEvent(wt, f, count, end, "last", i, ww.pos, last), "item"), LAMBDA wl :
    IF IsTrue(last) THEN repeat_return(wl, f, count, end, i, items1)
    ELSE write_repeat(wl, f, items1, i + 1, count, end)))))))))

repeat_fill_keep(items, count, d) == items
\* main.py: DataStruct._write_field (REPEAT): the list extended with the
\* base field's default, or trimmed, to count items
repeat_fill(items, count, d) ==
    IF Len(items) < count
    THEN items \o [k \in 1..(count - Len(items)) |-> d]
    ELSE Take(items, count)

\* main.py: DataStruct._write_field
write_field(w, f, value) ==
    LET cfg == config(Cur(w).cls)
        \* FIELD
        build == MetaTruthy(f.builder) /\ (value.t = "ellipsis" \/ f.always)
        b == evaluate(w, f.builder)
        value1 == IF build /\ ~IsRaise(b) THEN b ELSE value
        \* REPEAT
        count == evaluate(w, f.count)
        length == evaluate(w, f.length)
        mismatch == /\ IsNum(count)
                    /\ Len(value.v) # NumOf(count)
                    /\ ~MetaTruthy(f.base.builder)
        has_default == f.base.default.t # "ellipsis"
        \* COND
        c == evaluate(w, f.condition)
        n == evaluate(w, f.if_not)
        \* SWITCH
        key == evaluate(w, f.key)
        idx == field_switch_base(w, f)
    IN  CASE f.ftype = "FIELD" ->
                IF build /\ IsRaise(b) /\ ~Sizing(w) THEN Raise(w, b.v, "")
                ELSE Then(IF Sizing(w) THEN sizeof_value(w, f, value1)
                          ELSE Then(adapter_encode(w, f, value1),
                                    LAMBDA enc : write_value(enc, f, enc.ret)),
                          LAMBDA wf :
                     Ret(wf, IF value1.t = "struct" THEN wf.ret ELSE value1))
          [] f.ftype = "SEEK" ->
                Then(field_do_seek(w, f), LAMBDA ws : Ret(ws, Ell))
          [] f.ftype = "PADDING" ->
                Then(field_get_padding(w, cfg, f), LAMBDA p :
                     IF Sizing(w) THEN Ret(SizingIO_write(p, p.ret.length), Ell)
                     ELSE Ret(ctx_write(p, p.ret.padding), Ell))
          [] f.ftype = "ACTION" ->
                With(evaluate(w, f.action), LAMBDA a :
                IF IsRaise(a) THEN Raise(w, a.v, "")
                ELSE Ret(ActionEvent(w, f, a), a))
          [] f.ftype = "HOOK" ->
                IF Sizing(w) THEN Ret(w, Ell)
                ELSE Then(hook_apply(w, f), LAMBDA wh : Ret(wh, Ell))
          [] f.ftype = "IO" ->
                IF Sizing(w) THEN Ret(w, Ell)
                ELSE Then(io_apply(w, f), LAMBDA wi : Ret(wi, Ell))
          [] f.ftype = "REPEAT" ->
                IF value.t # "list"
                THEN Raise(w, "TypeError", "Value is not an array")
                ELSE IF IsRaise(count) THEN Raise(w, count.v, "")
                ELSE IF IsRaise(length) THEN Raise(w, length.v, "")
                ELSE IF mismatch /\ (~cfg.repeat_fill \/ ~has_default)
                THEN Raise(w, "ValueError", "List size doesn't match repeat() 'count'")
                ELSE IF mismatch
                THEN Then(field_get_default(w, f.base), LAMBDA d :
                     write_repeat(d, f,
                        repeat_fill(value.v, NumOf(count), d.ret),
                        0, count, repeat_end(d, length)))
                ELSE write_repeat(w, f, value.v, 0, count,
                                  repeat_end(w, length))
          [] f.ftype = "COND" ->
                IF IsRaise(c) THEN Raise(w, c.v, "")
                ELSE IF IsFalse(c)
                THEN IF IfNotSet(f)
                     THEN IF IsRaise(n) THEN Raise(w, n.v, "")
                          ELSE Ret(CondEvent(w, f, c, TRUE), n)
                     ELSE Ret(CondEvent(w, f, c, TRUE), Ell)
                ELSE write_field(CondEvent(w, f, c, FALSE), f.base, value)
          [] f.ftype = "SWITCH" ->
                IF IsRaise(key) THEN Raise(w, key.v, "")
                ELSE
                With(SwitchEvent(w, f, key, idx), LAMBDA ws :
                IF idx = 0
                THEN Raise(ws, "ValueError", "Unmapped field type (and no default=...)")
                ELSE IF value.t # "ellipsis"
                THEN write_field(ws, f.cases[idx].field, value)
                ELSE Then(field_get_default(ws, f.cases[idx].field),
                          LAMBDA sd :
                     write_field(sd, f.cases[idx].field, sd.ret)))
          [] OTHER -> Ret(w, Ell)

pack_fields_no_store(w, fields, i) ==
    IF i > Len(fields) THEN w
    ELSE With(write_field([w EXCEPT !.fpos = w.pos], fields[i],
                          GetSelf(w, fields[i].name)),
              LAMBDA w1 :
         LET f == fields[i]
             where == (IF Sizing(w) THEN "sizing " ELSE "packing ")
                      \o Cur(w).cls \o "." \o f.name
         IN  IF ~Ok(w1) THEN Suffix(w1, where)
             ELSE pack_fields(w1, fields, i + 1))
\* main.py: DataStruct.pack, the loop over the fields from i on
pack_fields(w, fields, i) ==
    IF i > Len(fields) THEN TellEvent(w)
    ELSE With(write_field(TellEvent([w EXCEPT !.fpos = w.pos]), fields[i],
                          GetSelf(w, fields[i].name)),
              LAMBDA w1 :
         LET f == fields[i]
             where == (IF Sizing(w) THEN "sizing " ELSE "packing ")
                      \o Cur(w).cls \o "." \o f.name
         IN  IF ~Ok(w1) THEN Suffix(w1, where)
             ELSE IF w1.ret.t # "ellipsis" /\ f.public
             THEN pack_fields(SetAttr(w1, f.name, w1.ret), fields, i + 1)
             ELSE pack_fields(w1, fields, i + 1))

\* main.py: DataStruct.pack; nested: parent is a Context.  ret is the
\* instance as the call leaves it (pack assigns the written values)
pack(w, self, kwargs, nested) ==
    LET root == IF nested /\ ~Sizing(w) THEN Cur(w).root ELSE Len(w.fr) + 1
    IN  IF w.io_hook # "" THEN IOHookCall(w, "tell")
        ELSE
        With(pack_fields(build_context(w, self.v.cls, self.v.m, kwargs, root),
                         Fields(self.v.cls), 1),
             LAMBDA w2 :
        Ret(PopContext(w2), StructV(self.v.cls, Cur(w2).self)))

\* main.py: DataStruct.pack lines 416-418: the value pack returns
pack_result(w) == IF w.kind = "bytes" THEN BytesV(w.buf) ELSE NoneV

\* main.py: DataStruct._read_value
read_value(w, f, typ) ==
    IF typ.k # "cls"
    THEN Raise(w, "TypeError", "issubclass() arg 1 must be a class")
    ELSE IF typ.n \in StructClasses
    THEN unpack(w, typ.n, EvalKwargs(w, f), TRUE)
    ELSE With(fmt_evaluate(w, f.fmt, config(Cur(w).cls).endianness),
              LAMBDA fmt :
         IF IsRaise(fmt) THEN Raise(w, fmt.v, "")
         ELSE With(ctx_read(w, IF fmt.t = "int" THEN fmt.v
                               ELSE CalcSize(fmt.v.x)),
                   LAMBDA r :
              IF ~Ok(r) THEN r
              ELSE IF fmt.t = "int"
              THEN IF Len(r.ret.v) < fmt.v
                   THEN Raise(r, "ValueError", "Not enough bytes to read")
                   ELSE r
              ELSE With(StructUnpack(fmt.v, r.ret.v), LAMBDA u :
                   IF IsRaise(u) THEN Raise(r, u.v, "")
                   ELSE Ret([r EXCEPT !.exact =
                                @ /\ StructPack(fmt.v, u) = r.ret], u))))

read_repeat_item_first(w, f, items, i, count, end) ==
    IF ~repeat_test(w, i, count, end)
    THEN repeat_return(w, f, count, end, i, items)
    ELSE
    Then(read_field(SetP(w, "i", IntV(i)), f.base), LAMBDA w1 :
    With(evaluate(w1, f.when), LAMBDA when :
    IF IsRaise(when) THEN Raise(w1, when.v, "")
    ELSE
    With(RepeatEvent(w1, f, count, end, "when", i, w1.pos, when), LAMBDA ww :
    IF IsFalse(when) THEN repeat_return(ww, f, count, end, i, items)
    ELSE
    With(SetP(RepeatEvent(ww, f, count, end, "item", i, w.pos, w1.ret),
              "item", w1.ret), LAMBDA wt :
    With(evaluate(wt, f.last), LAMBDA last :
    With(PopP(RepeatEvent(wt, f, count, end, "last", i, w.pos, last), "item"),
         LAMBDA wl :
    IF IsTrue(last)
    THEN repeat_return(wl, f, count, end, i, Append(items, w1.ret))
    ELSE read_repeat(wl, f, Append(items, w1.ret), i + 1, count, end)))))))
\* main.py: DataStruct._read_field, the REPEAT loop from index i on
read_repeat(w, f, items, i, count, end) ==
    IF ~repeat_test(w, i, count, end) THEN repeat_return(w, f, count, end, i, items)
    ELSE IF i >= MaxIter THEN Raise(w, "NoTermination", "")
    ELSE
    With(SetP(w, "i", IntV(i)), LAMBDA wi :
    With(evaluate(wi, f.when), LAMBDA when :
    IF IsRaise(when) THEN Raise(wi, when.v, "")
    ELSE
    With(RepeatEvent(wi, f, count, end, "when", i, wi.pos, when), LAMBDA ww :
    IF IsFalse(when) THEN repeat_return(ww, f, count, end, i, items)
    ELSE
    Then(read_field(ww, f.base), LAMBDA w1 :
    With(SetP(RepeatEvent(w1, f, count, end, "item", i, ww.pos, w1.ret), "item", w1.ret),
         LAMBDA wt :
    With(evaluate(wt, f.last), LAMBDA last :
    IF IsRaise(last) THEN Raise(wt, last.v, "")
    ELSE
    With(PopP(RepeatEvent(wt, f, count, end, "last", i, ww.pos, last), "item"), LAMBDA wl :
    IF IsTrue(last) THEN repeat_return(wl, f, count, end, i, Append(items, w1.ret))
    ELSE read_repeat(wl, f, Append(items, w1.ret), i + 1, count, end))))))))

\* main.py: DataStruct._read_field
read_field(w, f) ==
    LET cfg == config(Cur(w).cls)
        count == evaluate(w, f.count)
        length == evaluate(w, f.length)
        c == evaluate(w, f.condition)
        n == evaluate(w, f.if_not)
        key == evaluate(w, f.key)
        idx == field_switch_base(w, f)
    IN  CASE f.ftype = "FIELD" ->
                Then(read_value(w, f, w.fs[f.id].types), LAMBDA a :
                     adapter_decode(a, f, a.ret))
          [] f.ftype = "SEEK" ->
                Then(field_do_seek(w, f), LAMBDA ws : Ret(ws, Ell))
          [] f.ftype = "PADDING" ->
                Then(field_get_padding(w, cfg, f), LAMBDA p :
                Then(ctx_read(p, p.ret.length), LAMBDA r :
                     IF r.ret.v # p.ret.padding /\ p.ret.check
                     THEN Raise(r, "ValueError", "Invalid padding found")
                     ELSE Ret([r EXCEPT !.exact =
                                  @ /\ r.ret.v = p.ret.padding], Ell)))
          [] f.ftype = "ACTION" ->
                With(evaluate(w, f.action), LAMBDA a :
                IF IsRaise(a) THEN Raise(w, a.v, "")
                ELSE Ret(ActionEvent(w, f, a), a))
          [] f.ftype = "HOOK" ->
                Then(hook_apply(w, f), LAMBDA wh : Ret(wh, Ell))
          [] f.ftype = "IO" ->
                Then(io_apply(w, f), LAMBDA wi : Ret(wi, Ell))
          [] f.ftype = "REPEAT" ->
                IF IsRaise(count) THEN Raise(w, count.v, "")
                ELSE IF IsRaise(length) THEN Raise(w, length.v, "")
                ELSE read_repeat(w, f, <<>>, 0, count, repeat_end(w, length))
          [] f.ftype = "COND" ->
                IF IsRaise(c) THEN Raise(w, c.v, "")
                ELSE IF IsFalse(c)
                THEN IF IfNotSet(f)
                     THEN IF IsRaise(n) THEN Raise(w, n.v, "")
                          ELSE Ret(CondEvent(w, f, c, TRUE), n)
                     ELSE Ret(CondEvent(w, f, c, TRUE), NoneV)
                ELSE read_field(CondEvent(w, f, c, FALSE), f.base)
          [] f.ftype = "SWITCH" ->
                IF IsRaise(key) THEN Raise(w, key.v, "")
                ELSE
                With(SwitchEvent(w, f, key, idx), LAMBDA ws :
                IF idx = 0
                THEN Raise(ws, "ValueError", "Unmapped field type (and no default=...)")
                ELSE read_field(ws, f.cases[idx].field))
          [] OTHER -> Ret(w, Ell)

unpack_fields_read_first(w, fields, i) ==
    IF i > Len(fields) THEN w
    ELSE With(read_field([w EXCEPT !.fpos = w.pos], fields[i]), LAMBDA r :
         With(field_validate(w.fs, fields[i]), LAMBDA v :
         LET f == fields[i]
             w1 == [r EXCEPT !.fs = v.fs]
             where == "unpacking " \o Cur(w).cls \o "." \o f.name
         IN  IF ~Ok(r) THEN Suffix(r, where)
             ELSE IF v.err # "" THEN Suffix(RaiseValidation(w1, v.err), where)
             ELSE IF r.ret.t # "ellipsis" /\ f.public
             THEN unpack_fields(SetItem(w1, f.name, r.ret), fields, i + 1)
             ELSE unpack_fields(w1, fields, i + 1)))
\* main.py: DataStruct.unpack, the loop over the fields from i on
unpack_fields(w, fields, i) ==
    IF i > Len(fields) THEN TellEvent(w)
    ELSE With(field_validate(w.fs, fields[i]), LAMBDA v :
         LET f == fields[i]
             w1 == TellEvent([w EXCEPT !.fs = v.fs, !.fpos = w.pos])
             where == "unpacking " \o Cur(w).cls \o "." \o f.name
         IN  IF v.err # ""
             THEN Suffix(RaiseValidation(w1, v.err), where)
             ELSE With(read_field(w1, f), LAMBDA r :
                  IF ~Ok(r) THEN Suffix(r, where)
                  ELSE IF r.ret.t # "ellipsis" /\ f.public
                  THEN unpack_fields(SetItem(r, f.name, r.ret), fields, i + 1)
                  ELSE unpack_fields(r, fields, i + 1)))

\* main.py: DataStruct.unpack; nested: parent is a Context
unpack(w, cls, kwargs, nested) ==
    LET root == IF nested THEN Cur(w).root ELSE Len(w.fr) + 1
    IN  IF w.io_hook # "" THEN IOHookCall(w, "tell")
        ELSE
        With(unpack_fields(build_context(w, cls, EmptyMap, kwargs, root),
                           Fields(cls), 1),
             LAMBDA w2 :
        IF ~Ok(w2) THEN PopContext(w2)
        ELSE With(post_init(w2, cls, Cur(w2).self), LAMBDA w3 :
             IF ~Ok(w3)
             THEN PopContext(Suffix(w3, "unpacking " \o cls \o "()"))
             ELSE PopContext(w3)))

\* ------------------------------------------------------------------------
\* The program as a state machine.  A caller holds one class of the schema
\* catalogue and the keyword arguments it passes to every call.  It obtains
\* one instance, by unpacking some bytes or by constructing it, and then
\* calls pack, sizeof and unpack on it in any order; every call runs to
\* completion.
\*   cls, kwargs   the class and the keyword arguments of the calls
\*   fstore        the Fields' mutable attributes (validation state)
\*   obj           the instance the caller holds, NoneV when none
\*   un, re        the last unpack of caller data / of pack's output
\*   pk, sz        the last pack / sizeof of obj
\*   val           the history of the direct field_validate calls
\* ------------------------------------------------------------------------
VARIABLES cls, kwargs, fstore, obj, un, re, pk, sz, val

vars == <<cls, kwargs, fstore, obj, un, re, pk, sz, val>>

ByteDomain == 0..MaxByte
DataSet == UNION {[1..n -> ByteDomain] : n \in 0..MaxData}
ShortLists == {q \in DataSet : Len(q) <= 2}

DataClasses ==
    {"Pair", "Padded", "Aligned", "Counted", "Cond", "CondElse", "Sw",
     "SwNoDef", "Outer", "Ck", "Seek", "Bad", "Built",
     "BuiltOnce",
     "Fill",
     "NoFill",
     "FillNoDef",
     "Late",
     "Chain",
     "Nest",
     "IoTwice",
     "IoEnd",
     "IoRaw",
     "Until",
     "While",
     "Loop",
     "SwInt",
     "SwBool",
     "SwTruth",
     "SwEnum",
     "Act",
     "Back",
     "Fwd",
     "FwdAlign",
     "CondLit",
     "Budget"}
SchemaClasses == {AllClasses[i] : i \in 1..Len(AllClasses)}

OptInt == {NoneV} \cup {IntV(n) : n \in ByteDomain}

\* the keyword arguments with which the instances are constructed
ConstructArgs(c) ==
    CASE c \in {"Cond", "Late"} ->
            {[flag |-> BoolV(b), v |-> x] : b \in BOOLEAN, x \in OptInt}
      [] c = "CondElse" ->
            {[flag |-> BoolV(b), v |-> IntV(a)] :
                b \in BOOLEAN, a \in ByteDomain}
      [] c = "Ck" ->
            {[flag |-> IntV(a), v |-> x] : a \in ByteDomain, x \in OptInt}
      [] c = "Counted" -> {[items |-> ListV([i \in 1..Len(q) |-> IntV(q[i])])] :
                              q \in ShortLists}
      [] c \in {"Built", "BuiltOnce"} ->
            {[v |-> IntV(a)] : a \in ByteDomain}
            \cup {[v |-> IntV(a), twice |-> IntV(b)] :
                     a \in ByteDomain, b \in ByteDomain}
      [] c \in {"Fill", "NoFill", "FillNoDef"} ->
            {[a |-> IntV(0), items |-> ListV([i \in 1..Len(q) |-> IntV(q[i])])] :
                q \in DataSet}
      [] c \in {"IoEnd", "IoRaw"} -> {[a |-> IntV(x)] : x \in ByteDomain}
      [] c = "Budget" ->
            {[n |-> IntV(x),
              items |-> ListV([i \in 1..k |-> BytesV([j \in 1..x |-> 1])])] :
                x \in ByteDomain, k \in 0..2}
      [] c = "CondLit" ->
            {[a |-> IntV(x), b |-> IntV(y), c |-> IntV(x), d |-> IntV(y)] :
                x \in ByteDomain, y \in ByteDomain}
      [] c = "FwdAlign" -> {[ck |-> IntV(x)] : x \in ByteDomain}
      [] c = "Fwd" ->
            {[a |-> IntV(x)] : x \in ByteDomain}
            \cup {[a |-> IntV(x), ck |-> IntV(1)] : x \in ByteDomain}
      [] c \in {"Until", "Loop"} ->
            {[items |-> ListV([i \in 1..Len(q) |-> IntV(q[i])])] :
                q \in DataSet}
      [] c = "While" ->
            {[a |-> IntV(0), items |-> ListV([i \in 1..Len(q) |-> IntV(q[i])])] :
                q \in DataSet}
      [] c \in {"Chain", "Nest", "IoTwice", "Act"} ->
            {[a |-> IntV(x), b |-> IntV(y)] :
                x \in ByteDomain, y \in ByteDomain}
      [] c = "Sw" ->
            {[kind |-> IntV(a), data |-> x] :
                a \in ByteDomain, x \in {IntV(0), BytesV(<<1>>)}}
      [] c = "SwInt" ->
            {[kind |-> IntV(a), data |-> x] :
                a \in ByteDomain, x \in {IntV(0), BytesV(<<1>>)}}
      [] c \in {"SwBool", "SwTruth"} ->
            {[flag |-> BoolV(b), data |-> x] :
                b \in BOOLEAN, x \in {IntV(0), BytesV(<<1>>)}}
      [] c = "SwEnum" -> {[data |-> x] : x \in {IntV(0), BytesV(<<1>>)}}
      [] c = "SwNoDef" ->
            {[kind |-> IntV(a), data |-> IntV(0)] : a \in ByteDomain}
      [] OTHER -> {}

NoCall ==
    [done |-> FALSE, src |-> "", data |-> <<>>, at |-> 0, ok |-> FALSE,
     err |-> NoErr, val |-> NoneV, pos |-> 0, fpos |-> 0, short |-> FALSE,
     nread |-> 0, exact |-> TRUE, moved |-> FALSE, fed |-> <<>>,
     fedat |-> 0, io_hook |-> "", rawlog |-> <<>>, hlog |-> <<>>,
     iolog |-> <<>>, rlog |-> <<>>,
     swlog |-> <<>>, acts |-> <<>>, clog |-> <<>>,
     tlog |-> <<>>, fwd |-> <<>>, cnd |-> <<>>]
NoPack ==
    [done |-> FALSE, of |-> NoneV, after |-> NoneV, sink |-> "", ok |-> FALSE,
     err |-> NoErr, ret |-> NoneV, buf |-> <<>>, pos |-> 0, fpos |-> 0,
     fed |-> <<>>, fedat |-> 0, moved |-> FALSE, io_hook |-> "",
     rawlog |-> <<>>, hlog |-> <<>>, iolog |-> <<>>, rlog |-> <<>>,
     swlog |-> <<>>, acts |-> <<>>, clog |-> <<>>,
     tlog |-> <<>>, fwd |-> <<>>, cnd |-> <<>>]
NoSize ==
    [done |-> FALSE, of |-> NoneV, ok |-> FALSE, err |-> NoErr, n |-> 0,
     rlog |-> <<>>, swlog |-> <<>>, acts |-> <<>>, clog |-> <<>>,
     tlog |-> <<>>, fwd |-> <<>>, cnd |-> <<>>, moved |-> FALSE,
     pos |-> 0, hooks |-> <<>>, io_hook |-> "", hlog |-> <<>>,
     iolog |-> <<>>, rawlog |-> <<>>]
NoHistory == [last |-> 0, n |-> <<>>, first |-> <<>>, out |-> "", changed |-> FALSE]

\* what the caller observes of a finished unpack
Unpacked(w, src, d, at) ==
    [done |-> TRUE, src |-> src, data |-> d, at |-> at, ok |-> Ok(w),
     err |-> w.err, val |-> IF Ok(w) THEN w.ret ELSE NoneV, pos |-> w.pos,
     fpos |-> w.fpos, short |-> w.short, nread |-> w.nread,
     exact |-> w.exact, moved |-> w.moved, fed |-> w.fed,
     fedat |-> w.fedat, io_hook |-> w.io_hook, rawlog |-> w.rawlog,
     hlog |-> w.hlog, iolog |-> w.iolog, rlog |-> w.rlog,
                    swlog |-> w.swlog, acts |-> w.acts, clog |-> w.clog,
                    tlog |-> w.tlog, fwd |-> w.fwd, cnd |-> w.cnd]

Init ==
    /\ cls \in DataClasses
    /\ \/ kwargs = EmptyMap
       \/ cls = "Outer" /\ kwargs = ("name_len" :> IntV(1))
       \/ cls = "SwEnum" /\ \E k \in KindMembers : kwargs = ("kind" :> k)
    /\ fstore = FreshStore(cls)
    /\ obj = NoneV
    /\ un = NoCall /\ re = NoCall /\ pk = NoPack /\ sz = NoSize
    /\ val = NoHistory

\* x = cls(**args), while the caller holds no instance
Construct(args) ==
    /\ obj = NoneV
    /\ \E w \in {post_init(NewWorld("none", <<>>, fstore), cls, args)} :
          /\ fstore' = w.fs
          /\ obj' = IF Ok(w) THEN w.ret ELSE obj
    /\ un' = NoCall /\ re' = NoCall /\ pk' = NoPack /\ sz' = NoSize
    /\ UNCHANGED <<cls, kwargs, val>>

\* x = cls.unpack(d, **kwargs), the caller's first call
CallUnpack(d) ==
    /\ obj = NoneV /\ ~un.done
    /\ \E w \in {unpack(NewWorld("bytes", d, fstore), cls, kwargs, FALSE)} :
          /\ fstore' = w.fs
          /\ un' = Unpacked(w, "data", d, 0)
          /\ obj' = IF Ok(w) THEN w.ret ELSE NoneV
    /\ re' = NoCall /\ pk' = NoPack /\ sz' = NoSize
    /\ UNCHANGED <<cls, kwargs, val>>

\* x.pack(**kwargs) / x.pack(io=sink, **kwargs); the sink is a fresh
\* io.BytesIO ("bytesio") or another binary stream ("file")
CallPack(sink) ==
    /\ obj.t = "struct"
    /\ \E w \in {pack(NewWorld(IF sink = "file" THEN "file" ELSE "bytes",
                               <<>>, fstore), obj, kwargs, FALSE)} :
          /\ pk' = [done |-> TRUE, of |-> obj, after |-> w.ret,
                    sink |-> sink, ok |-> Ok(w), err |-> w.err,
                    ret |-> IF Ok(w) THEN pack_result(w) ELSE NoneV,
                    buf |-> w.buf, pos |-> w.pos, fpos |-> w.fpos,
                    fed |-> w.fed, fedat |-> w.fedat, moved |-> w.moved,
                    io_hook |-> w.io_hook, rawlog |-> w.rawlog,
                    hlog |-> w.hlog, iolog |-> w.iolog, rlog |-> w.rlog,
                    swlog |-> w.swlog, acts |-> w.acts, clog |-> w.clog,
                    tlog |-> w.tlog, fwd |-> w.fwd, cnd |-> w.cnd]
          /\ obj' = w.ret
          /\ fstore' = w.fs
    /\ re' = NoCall
    /\ UNCHANGED <<cls, kwargs, un, sz, val>>

\* x.sizeof(**kwargs)
CallSizeof ==
    /\ obj.t = "struct"
    /\ \E w \in {pack(NewWorld("sizing", <<>>, fstore), obj, kwargs, FALSE)} :
          /\ sz' = [done |-> TRUE, of |-> obj, ok |-> Ok(w), err |-> w.err,
                    n |-> w.size, rlog |-> w.rlog, swlog |-> w.swlog,
                    acts |-> w.acts, clog |-> w.clog,
                    tlog |-> w.tlog, fwd |-> w.fwd, cnd |-> w.cnd, moved |-> w.moved, pos |-> w.pos,
                    hooks |-> w.hooks, io_hook |-> w.io_hook,
                    hlog |-> w.hlog, iolog |-> w.iolog,
                    rawlog |-> w.rawlog]
          /\ obj' = w.ret
          /\ fstore' = w.fs
    /\ UNCHANGED <<cls, kwargs, un, re, pk, val>>

\* cls.unpack(x.pack(**kwargs), **kwargs)
CallUnpackPacked ==
    /\ pk.done /\ pk.ok /\ pk.sink = "none"
    /\ \E w \in {unpack(NewWorld("bytes", pk.buf, fstore), cls, kwargs,
                         FALSE)} :
          /\ re' = Unpacked(w, "packed", pk.buf, 0)
          /\ fstore' = w.fs
    /\ UNCHANGED <<cls, kwargs, obj, un, pk, sz, val>>

\* the same after one byte written while a hook was active is changed
CallUnpackCorrupted(i, b) ==
    /\ pk.done /\ pk.ok /\ pk.sink = "none"
    /\ i \in (pk.fedat + 1)..(pk.fedat + Len(pk.fed))
    /\ i <= Len(pk.buf)
    /\ b # pk.buf[i]
    /\ \E w \in {unpack(NewWorld("bytes", [pk.buf EXCEPT ![i] = b], fstore),
                         cls, kwargs, FALSE)} :
          /\ re' = Unpacked(w, "corrupt", [pk.buf EXCEPT ![i] = b], i)
          /\ fstore' = w.fs
    /\ UNCHANGED <<cls, kwargs, obj, un, pk, sz, val>>

Next ==
    \/ \E args \in ConstructArgs(cls) : Construct(args)
    \/ \E d \in DataSet : CallUnpack(d)
    \/ \E sink \in {"none", "bytesio", "file"} : CallPack(sink)
    \/ CallSizeof
    \/ CallUnpackPacked
    \/ \E i \in 1..(MaxData + 2), b \in ByteDomain : CallUnpackCorrupted(i, b)

Spec == Init /\ [][Next]_vars

\* ------------------------------------------------------------------------
\* The validator called directly: field_validate(field, meta) on the fields
\* of one class, each at most MaxValidate times, in any order.
\* ------------------------------------------------------------------------
MaxValidate == 2

InitV ==
    /\ cls \in SchemaClasses
    /\ Len(Fields(cls)) > 0
    /\ kwargs = EmptyMap
    /\ fstore = FreshStore(cls)
    /\ obj = NoneV
    /\ un = NoCall /\ re = NoCall /\ pk = NoPack /\ sz = NoSize
    /\ val = [last |-> 0, n |-> [i \in 1..Len(Fields(cls)) |-> 0],
              first |-> [i \in 1..Len(Fields(cls)) |-> ""], out |-> "",
              changed |-> FALSE]

TypesOf(fs, f) ==
    LET q == FieldObjects(f) IN [i \in 1..Len(q) |-> fs[q[i].id].type]

ValidateField(i) ==
    /\ val.n[i] < MaxValidate
    /\ \E f \in {Fields(cls)[i]} :
       \E r \in {field_validate(fstore, f)} :
          /\ fstore' = r.fs
          /\ val' = [last |-> i, n |-> [val.n EXCEPT ![i] = @ + 1],
                     first |-> IF val.n[i] = 0
                               THEN [val.first EXCEPT ![i] = r.err]
                               ELSE val.first,
                     out |-> r.err,
                     changed |-> TypesOf(r.fs, f) # TypesOf(fstore, f)]
    /\ UNCHANGED <<cls, kwargs, obj, un, re, pk, sz>>

NextV == \E i \in 1..Len(Fields(cls)) : ValidateField(i)

SpecV == InitV /\ [][NextV]_vars

\* ------------------------------------------------------------------------
\* utils/misc.py: pad_up called on its own, as field_get_padding calls it
\* for align(): the offset is a tell() and the modulus a block size
\* ------------------------------------------------------------------------
MaxOffset == 15
MaxModulus == 8

InitP ==
    /\ cls = "Aligned"
    /\ kwargs = EmptyMap
    /\ fstore = FreshStore(cls)
    /\ obj = NoneV
    /\ un = NoCall /\ re = NoCall /\ pk = NoPack /\ sz = NoSize
    /\ \E x \in 0..MaxOffset, n \in 1..MaxModulus :
          val = [offset |-> x, modulus |-> n, done |-> FALSE, p |-> 0]

CallPadUp ==
    /\ ~val.done
    /\ val' = [val EXCEPT !.done = TRUE,
                          !.p = pad_up(val.offset, val.modulus)]
    /\ UNCHANGED <<cls, kwargs, fstore, obj, un, re, pk, sz>>

NextP == CallPadUp

SpecP == InitP /\ [][NextP]_vars

\* ------------------------------------------------------------------------
\* fields/helper.py: crypt(): the Crypt IOHook on its own.  Its io_read and
\* io_write (types.py: IOHook) are the read and write of the stream under
\* it; the caller reads n bytes, writes s, or ends the hook, at most
\* MaxCalls times.  The stream under it holds the bytes 1, 2, ..., and the
\* bytes written through it are numbered the same way, so that a byte out of
\* place shows.
\* ------------------------------------------------------------------------
MaxStream == 5
MaxBlock == 3
MaxRead == 3
MaxWrite == 3
MaxCalls == 3

Counting(from, n) == [i \in 1..n |-> (from + i) % 256]

\* the cipher passed to crypt(): encrypt adds one to every byte and turns
\* each block of block_size bytes around, decrypt undoes it
RECURSIVE encrypt(_, _)
encrypt(data, block_size) ==
    IF data = <<>> THEN <<>>
    ELSE Reverse(EachByte(Take(data, block_size), LAMBDA b : b + 1))
         \o encrypt(Drop(data, block_size), block_size)
RECURSIVE decrypt(_, _)
decrypt(data, block_size) ==
    IF data = <<>> THEN <<>>
    ELSE Reverse(EachByte(Take(data, block_size), LAMBDA b : b + 255))
         \o decrypt(Drop(data, block_size), block_size)

\* io.BytesIO.read(n) of the stream under the hook (IOHook.io_read)
stream_read(c, n) ==
    With(Take(Drop(c.stream, c.ipos), n), LAMBDA s :
         [c |-> [c EXCEPT !.ipos = @ + Len(s)], ret |-> s])
\* io.BytesIO.write(s) of the stream under the hook (IOHook.io_write)
stream_write(c, s) ==
    [c EXCEPT !.under = @ \o s, !.wlog = Append(@, s)]

crypt_read_len_exact(c, n) == n
\* Crypt.read: read_len
crypt_read_len(c, n) ==
    IF c.block_single THEN c.block_size ELSE n + pad_up(n, c.block_size)

\* Crypt.read: "while n:" and, in crypt_take, "while self.read_buf and n:"
RECURSIVE crypt_read_from(_, _, _)
RECURSIVE crypt_take(_, _, _)
crypt_read_from(c, n, ret) ==
    IF n = 0 THEN [c |-> c, ret |-> ret]
    ELSE IF c.read_buf = <<>>
    THEN With(stream_read(c, crypt_read_len(c, n)), LAMBDA got :
         IF got.ret = <<>> THEN [c |-> got.c, ret |-> ret]
         ELSE crypt_take(
                [got.c EXCEPT !.read_buf = decrypt(got.ret, c.block_size),
                              !.dec = Append(@, [at |-> c.ipos,
                                                 data |-> got.ret])],
                n, ret))
    ELSE crypt_take(c, n, ret)
crypt_take(c, n, ret) ==
    IF c.read_buf # <<>> /\ n # 0
    THEN With(Take(c.read_buf, n), LAMBDA chunk :
         crypt_take([c EXCEPT !.read_buf = Drop(@, n)],
                    n - Len(chunk), ret \o chunk))
    ELSE crypt_read_from(c, n, ret)

\* fields/helper.py: Crypt.read
crypt_read(c, n) ==
    IF ~c.keyed THEN stream_read(c, n)
    ELSE crypt_read_from(c, n, <<>>)

\* Crypt.write: "while len(self.write_buf) >= block_size:"
RECURSIVE crypt_write_blocks(_)
crypt_write_blocks(c) ==
    IF Len(c.write_buf) < c.block_size THEN c
    ELSE With(IF c.block_single THEN c.block_size
              ELSE Len(c.write_buf) - (Len(c.write_buf) % c.block_size),
              LAMBDA write_len :
         With(Take(c.write_buf, write_len), LAMBDA chunk :
         crypt_write_blocks(
            stream_write([c EXCEPT !.write_buf = Drop(@, write_len),
                                   !.enc = Append(@, chunk)],
                         encrypt(chunk, c.block_size)))))

\* fields/helper.py: Crypt.write
crypt_write(c, s) ==
    IF ~c.keyed THEN stream_write(c, s)
    ELSE crypt_write_blocks([c EXCEPT !.write_buf = @ \o s])

\* fields/helper.py: Crypt.end, called by io_apply for the io_end field
crypt_end(c) ==
    [c EXCEPT !.read_buf = <<>>, !.write_buf = <<>>, !.ended = TRUE]

\* the hook after Crypt.init, over a stream of the bytes 1..n
InitC ==
    /\ cls = "IoEnd"
    /\ kwargs = EmptyMap
    /\ fstore = FreshStore(cls)
    /\ obj = NoneV
    /\ un = NoCall /\ re = NoCall /\ pk = NoPack /\ sz = NoSize
    /\ \E n \in 0..MaxStream, bs \in 1..MaxBlock, single \in BOOLEAN,
          keyed \in BOOLEAN :
          val = [block_size |-> bs, block_single |-> single, keyed |-> keyed,
                 stream |-> Counting(0, n), ipos |-> 0,
                 read_buf |-> <<>>, write_buf |-> <<>>,
                 under |-> <<>>, wlog |-> <<>>, enc |-> <<>>, dec |-> <<>>,
                 out |-> <<>>, win |-> <<>>,
                 last |-> [op |-> "", n |-> 0, ret |-> <<>>, left |-> 0],
                 calls |-> 0, ended |-> FALSE]

CryptRead(n) ==
    /\ ~val.ended /\ val.calls < MaxCalls
    /\ \E r \in {crypt_read(val, n)} :
          val' = [r.c EXCEPT !.out = @ \o r.ret,
                             !.last = [op |-> "read", n |-> n, ret |-> r.ret,
                                       left |-> Len(val.stream) - Len(val.out)],
                             !.calls = @ + 1]
    /\ UNCHANGED <<cls, kwargs, fstore, obj, un, re, pk, sz>>

CryptWrite(n) ==
    /\ ~val.ended /\ val.calls < MaxCalls
    /\ \E s \in {Counting(Len(val.win), n)} :
          val' = [crypt_write(val, s) EXCEPT
                     !.win = @ \o s,
                     !.last = [op |-> "write", n |-> n, ret |-> s,
                               left |-> 0],
                     !.calls = @ + 1]
    /\ UNCHANGED <<cls, kwargs, fstore, obj, un, re, pk, sz>>

CryptEnd ==
    /\ ~val.ended
    /\ val' = [crypt_end(val) EXCEPT
                  !.last = [op |-> "end", n |-> 0, ret |-> <<>>, left |-> 0]]
    /\ UNCHANGED <<cls, kwargs, fstore, obj, un, re, pk, sz>>

NextC ==
    \/ \E n \in 0..MaxRead : CryptRead(n)
    \/ \E n \in 0..MaxWrite : CryptWrite(n)
    \/ CryptEnd

SpecC == InitC /\ [][NextC]_vars

\* ------------------------------------------------------------------------
\* Properties
\* ------------------------------------------------------------------------
PublicNames(c) ==
    {Fields(c)[i].name : i \in {j \in 1..Len(Fields(c)) : Fields(c)[j].public}}

\* the dataclass __eq__ restricted to the public fields
SameInstance(a, b) ==
    /\ a.t = "struct" /\ b.t = "struct"
    /\ a.v.cls = b.v.cls
    /\ \A n \in PublicNames(a.v.cls) :
          /\ n \in DOMAIN a.v.m /\ n \in DOMAIN b.v.m
          /\ PyEq(a.v.m[n], b.v.m[n])

\* the fields a lazy value of field f names when unpack evaluates it
UnpackReads(f) ==
    {v.n : v \in {x \in {f.fmt, f.condition, f.count, f.key} :
                     x.k \in {"attr", "len", "eq"}}}
\* some lazy value that unpack evaluates reads a field declared at or after
\* its own field
ReadsLater(c) ==
    \E i \in 1..Len(Fields(c)) : \E j \in i..Len(Fields(c)) :
        Fields(c)[j].name \in UnpackReads(Fields(c)[i])

C2_SizeofEqualsPackedLength ==
    (/\ sz.done /\ sz.ok /\ pk.done /\ pk.ok /\ pk.sink = "none"
     /\ sz.of = pk.of)
    => sz.n = Len(pk.ret.v)

ChecksumError(r) == ~r.ok /\ r.err.msg = "Checksum invalid"
SameSpan == re.fedat = pk.fedat /\ Len(re.fed) = Len(pk.fed)
\* the class has a checksum field behind checksum_start and checksum_end
ChecksumLayout(c) ==
    \E i \in 1..Len(Fields(c)) :
        /\ Fields(c)[i].adapter = "checksum"
        /\ \E j \in 1..(i - 1) :
               Fields(c)[j].ftype = "HOOK" /\ Fields(c)[j].end

FailedCalls == {r \in {un, re} : r.done /\ ~r.ok /\ r.err.typ \in EXCEPTIONS}
FailedErrs ==
    {r.err : r \in FailedCalls}
    \cup (IF pk.done /\ ~pk.ok /\ pk.err.typ \in EXCEPTIONS THEN {pk.err} ELSE {})
    \cup (IF sz.done /\ ~sz.ok /\ sz.err.typ \in EXCEPTIONS THEN {sz.err} ELSE {})

C6_ShortReadRaises == (un.done /\ un.short) => ~un.ok

\* C7 as claimed: pack returns the bytes if and only if the caller gave no
\* sink
C7_PackReturnsBytesIffNoSink ==
    (pk.done /\ pk.ok) => ((pk.ret.t = "bytes") <=> (pk.sink = "none"))

\* C8 as claimed: the second field_validate of a field gives the outcome of
\* the first and changes no declared type of the field or its base fields
C8_ValidateIdempotent ==
    (val.last # 0 /\ val.n[val.last] = 2)
    => /\ (val.out = "") <=> (val.first[val.last] = "")
       /\ ~val.changed

SwitchUnmapped == "Unmapped field type (and no default=...)"
KindOf(x) == x.v.m["kind"]
DataOf(x) == x.v.m["data"]

\* C10: a discriminant that matches no key selects the default case, which
\* alone consumes or produces bytes (Sw: one byte); without a default case
\* (SwNoDef) the ValueError is raised with no byte consumed or produced by
\* the switch
C10_SwitchDefault ==
    /\ (/\ cls = "Sw" /\ un.done /\ Len(un.data) >= 2 /\ un.data[1] # 0)
       => /\ un.ok
          /\ un.pos - un.fpos = 1
          /\ DataOf(un.val) = BytesV(<<un.data[2]>>)
    /\ (/\ cls = "SwNoDef" /\ un.done /\ Len(un.data) >= 1 /\ un.data[1] # 0)
       => /\ ~un.ok
          /\ un.err.typ = "ValueError" /\ un.err.msg = SwitchUnmapped
          /\ un.pos = un.fpos /\ un.nread = 1
    /\ (/\ cls = "Sw" /\ pk.done /\ KindOf(pk.of) # IntV(0)
        /\ DataOf(pk.of).t = "bytes")
       => /\ pk.ok
          /\ pk.buf = <<KindOf(pk.of).v>> \o DataOf(pk.of).v
    /\ (cls = "SwNoDef" /\ pk.done /\ KindOf(pk.of) # IntV(0))
       => /\ ~pk.ok
          /\ pk.err.typ = "ValueError" /\ pk.err.msg = SwitchUnmapped
          /\ pk.pos = pk.fpos /\ Len(pk.buf) = 1

C10_Witness ==
    /\ cls = "Sw" /\ un.done /\ Len(un.data) >= 2 /\ un.data[1] # 0
    /\ un.ok /\ DataOf(un.val).t = "bytes" /\ un.pos = 2

\* the classes "flag; v = cond(lambda ctx: ctx.flag, ...)(field("B"))"
CondClasses == {"Cond", "CondElse"}
CondField == Fields(cls)[2]
BaseBytes(x) == StructPack(FmtV("<", 1, "B").v, x).v

\* C11: a COND whose condition is False contributes no byte: pack, sizeof
\* and unpack succeed without visiting the base field, the position and the
\* size stay where the COND field began, and a configured if_not is the
\* value recorded; with any other condition the bytes and the value are
\* those of the base field
C11_CondFalseZeroBytes ==
    cls \in CondClasses =>
    /\ pk.done =>
          IF IsFalse(pk.of.v.m.flag)
          THEN /\ pk.ok /\ pk.pos = pk.fpos /\ pk.buf = <<0>>
               /\ IfNotSet(CondField) =>
                     pk.after.v.m.v = CondField.if_not.x
          ELSE pk.ok =>
               /\ pk.buf = <<1>> \o BaseBytes(pk.of.v.m.v)
               /\ pk.after.v.m.v = pk.of.v.m.v
    /\ sz.done =>
          IF IsFalse(sz.of.v.m.flag)
          THEN /\ sz.ok /\ sz.n = 1
               /\ IfNotSet(CondField) => obj.v.m.v = CondField.if_not.x
          ELSE sz.ok => sz.n = 1 + CalcSize("B")
    /\ (un.done /\ un.ok) =>
          IF IsFalse(un.val.v.m.flag)
          THEN /\ un.pos = 1 /\ un.fpos = 1
               /\ IfNotSet(CondField) => un.val.v.m.v = CondField.if_not.x
          ELSE /\ un.pos = 2 /\ un.fpos = 1
               /\ un.val.v.m.v = IntV(un.data[2])

C11_Witness ==
    /\ cls = "CondElse" /\ pk.done /\ pk.ok /\ sz.done /\ sz.ok
    /\ IsFalse(pk.of.v.m.flag) /\ pk.of.v.m.v = IntV(1)
    /\ pk.after.v.m.v = IntV(7) /\ pk.buf = <<0>> /\ sz.n = 1

BuiltClasses == {"Built", "BuiltOnce"}
\* the instance with every built value supplied explicitly: each built
\* field, in declaration order, holds what its builder gives on the fields
\* before it, unless it is not 'always' and the caller supplied a value
RECURSIVE Explicit(_, _, _)
Explicit(m, fields, i) ==
    IF i > Len(fields) THEN m
    ELSE LET f == fields[i]
             old == IF f.name \in DOMAIN m THEN m[f.name] ELSE Ell
         IN  IF MetaTruthy(f.builder) /\ (old = Ell \/ f.always)
             THEN Explicit((f.name :> m[f.builder.n]) @@ m, fields, i + 1)
             ELSE Explicit(m, fields, i + 1)
RECURSIVE BytesOf(_, _, _)
BytesOf(m, fields, i) ==
    IF i > Len(fields) THEN <<>>
    ELSE BaseBytes(m[fields[i].name]) \o BytesOf(m, fields, i + 1)

\* C12: pack computes a built field from its builder when no value was
\* supplied or when 'always' is set, at the field's place in declaration
\* order, writes the computed value and stores it in the instance: after
\* x.pack() the instance equals the one with every built value supplied
C12_BuiltFieldsStored ==
    /\ (cls \in BuiltClasses /\ pk.done) =>
          /\ pk.ok
          /\ pk.after = StructV(cls, Explicit(pk.of.v.m, Fields(cls), 1))
          /\ pk.buf = BytesOf(pk.after.v.m, Fields(cls), 1)
    /\ (cls = "Counted" /\ pk.done /\ pk.ok) =>
          /\ pk.after.v.m.count = IntV(Len(pk.of.v.m.items.v))
          /\ pk.after.v.m.items = pk.of.v.m.items
          /\ pk.buf[1] = Len(pk.of.v.m.items.v)
          /\ Len(pk.buf) = 1 + Len(pk.of.v.m.items.v)

C12_Witness ==
    /\ cls = "BuiltOnce" /\ pk.done /\ pk.ok
    /\ pk.of.v.m.v = IntV(1) /\ pk.of.v.m.twice = IntV(0)
    /\ pk.of.v.m.thrice = Ell
    /\ pk.after.v.m.thrice = IntV(0) /\ pk.buf = <<1, 0, 0>>

C12_WitnessAlways ==
    /\ cls = "Built" /\ pk.done /\ pk.ok
    /\ pk.of.v.m.v = IntV(1) /\ pk.of.v.m.twice = IntV(0)
    /\ pk.after.v.m.twice = IntV(1) /\ pk.buf = <<1, 1>>

FillClasses == {"Fill", "NoFill", "FillNoDef"}
RepeatCount == Fields(cls)[2].count.x.v
RepeatDefault == Fields(cls)[2].base.default
Supplied == pk.of.v.m.items.v
RECURSIVE ItemBytes(_)
ItemBytes(q) ==
    IF Len(q) = 0 THEN <<>> ELSE BaseBytes(Head(q)) \o ItemBytes(Tail(q))

\* C13: pack of a repeat() with an integer count c and a list of n # c
\* items (base field not built) raises and writes no item when repeat_fill
\* is off or the base field has no default; otherwise it writes the first
\* min(n, c) items and then the base default up to c items, and the
\* instance's list has c items afterwards
C13_RepeatFill ==
    (cls \in FillClasses /\ pk.done /\ Len(Supplied) # RepeatCount) =>
        IF ~config(cls).repeat_fill \/ RepeatDefault = Ell
        THEN /\ ~pk.ok /\ pk.err.typ = "ValueError"
             /\ pk.buf = BaseBytes(pk.of.v.m.a) /\ pk.pos = pk.fpos
        ELSE /\ pk.ok
             /\ pk.buf = BaseBytes(pk.of.v.m.a)
                    \o ItemBytes(Take(Supplied, Min(Len(Supplied), RepeatCount)))
                    \o ItemBytes([k \in 1..(RepeatCount
                                    - Min(Len(Supplied), RepeatCount))
                                  |-> RepeatDefault])
             /\ Len(pk.after.v.m.items.v) = RepeatCount

C13_Witness ==
    /\ cls = "Fill" /\ pk.done /\ pk.ok
    /\ Supplied = <<IntV(1)>> /\ pk.buf = <<0, 1, 9>>
    /\ pk.after.v.m.items = ListV(<<IntV(1), IntV(9)>>)

C13_WitnessRaise ==
    /\ cls = "NoFill" /\ pk.done /\ ~pk.ok /\ Len(Supplied) = 3
    /\ pk.buf = <<0>>

\* C16 as claimed: a lazy value that reads a field declared later fails with
\* an AttributeError when it is evaluated, in unpack and in pack
C16_LateReadRaises ==
    ReadsLater(cls) =>
        /\ un.done => (~un.ok /\ un.err.typ = "AttributeError")
        /\ pk.done => (~pk.ok /\ pk.err.typ = "AttributeError")

\* C19: for every offset >= 0 and modulus >= 1, pad_up(offset, modulus) is
\* a p with 0 <= p < modulus and (offset + p) % modulus = 0
C19_PadUpAligns ==
    val.done =>
        /\ 0 <= val.p /\ val.p < val.modulus
        /\ (val.offset + val.p) % val.modulus = 0

C19_Witness ==
    val.done /\ val.offset = 5 /\ val.modulus = 4 /\ val.p = 3

\* the field of the last direct field_validate call and its outcome
Validated == Fields(cls)[val.last]
Accepted == val.out = ""
\* the number of members of a declared union (Optional[X] is X | None)
UnionArity(f) == IF f.ann.k = "union" THEN Len(f.ann.a) ELSE 0

\* C17 as claimed: a union of two types or an optional type is accepted
\* only for COND or SWITCH, and a union of three or more types is accepted
\* only for SWITCH
C17_UnionArity ==
    (val.last # 0 /\ Accepted) =>
        /\ UnionArity(Validated) = 2 => Validated.ftype \in UNION_FIELDS
        /\ UnionArity(Validated) >= 3 => Validated.ftype = "SWITCH"

\* C17 amended: a union of two or more types, or an optional type, is
\* accepted only for COND or SWITCH; a COND over a union of three or more
\* types is not rejected for its arity
C17_UnionKinds ==
    (val.last # 0 /\ Accepted /\ UnionArity(Validated) >= 2)
    => Validated.ftype \in UNION_FIELDS

C17_Witness ==
    /\ cls = "TestUnion" /\ val.last = 5 /\ Accepted
    /\ UnionArity(Validated) = 3 /\ Validated.ftype = "COND"

HookLogs == {un.hlog, re.hlog, pk.hlog}
RawLogs == {un.rawlog, re.rawlog, pk.rawlog}

\* the chain q without its most recently started entry of hook h
RemoveLast(q, h) ==
    LET i == CHOOSE i \in 1..Len(q) :
                q[i] = h /\ \A j \in (i + 1)..Len(q) : q[j] # h
    IN  SubSeq(q, 1, i - 1) \o SubSeq(q, i + 1, Len(q))

\* C14 as claimed: ending a hook removes the most recently started entry
\* with that hook identity and leaves the order of the other entries as it
\* was
C14_HookStackLifo ==
    \A log \in HookLogs : \A k \in 1..Len(log) :
        log[k].end => log[k].after = RemoveLast(log[k].before, log[k].hook)

\* the data after the functions `action` of the chain, last hook outermost
RECURSIVE Piped(_, _, _)
Piped(chain, action, data) ==
    IF Len(chain) = 0 THEN data
    ELSE LET h == chain[Len(chain)]
             d == Piped(SubSeq(chain, 1, Len(chain) - 1), action, data)
         IN  IF hook_has(h, action) /\ hook_func(h, action, d).t # "none"
             THEN hook_func(h, action, d).v
             ELSE d
\* one call of `action` per chain entry that has it, in chain order
CallsOf(chain, action) ==
    SelectSeq([i \in 1..Len(chain) |-> [i |-> i, action |-> action]],
              LAMBDA c : hook_has(chain[c.i], action))
RECURSIVE Written(_, _)
Written(log, k) ==
    IF k > Len(log) THEN <<>> ELSE log[k].out \o Written(log, k + 1)

\* C20: every non-empty raw access passes the data through update of
\* every active hook in chain order and then through read (unpack) or
\* write (pack) of every active hook in chain order, each function called
\* once per chain entry; a function returning None leaves the data as it
\* is; pack puts the transformed bytes on the stream
C20_HookChainOrder ==
    /\ \A log \in RawLogs : \A k \in 1..Len(log) :
          /\ log[k].out = Piped(log[k].chain, log[k].dir,
                                Piped(log[k].chain, "update", log[k].data))
          /\ log[k].calls = CallsOf(log[k].chain, "update")
                              \o CallsOf(log[k].chain, log[k].dir)
    /\ \A k \in 1..Len(un.rawlog) : un.rawlog[k].dir = "read"
    /\ \A k \in 1..Len(pk.rawlog) : pk.rawlog[k].dir = "write"
    /\ (pk.done /\ pk.ok /\ ~pk.moved) => pk.buf = Written(pk.rawlog, 1)

C20_Witness ==
    /\ cls = "Chain" /\ un.done /\ un.ok /\ pk.done /\ pk.ok
    /\ Len(un.rawlog) = 2 /\ Len(pk.rawlog) = 2
    /\ un.rawlog[1].chain = <<"inc", "dbl">>
    /\ pk.rawlog[1].chain = <<"inc", "dbl">>
    /\ un.rawlog[1].out # un.rawlog[1].data
    /\ pk.rawlog[1].out # pk.rawlog[1].data
    /\ pk.rawlog[2].chain = <<>>

C20_WitnessNone ==
    /\ cls = "Ck" /\ pk.done /\ pk.ok /\ Len(pk.rawlog) > 1
    /\ pk.rawlog[1].chain = <<"sum">>
    /\ Len(pk.rawlog[1].calls) = 2

\* the IO fields processed by the calls so far
IoLogs == {un.iolog, re.iolog, pk.iolog}
Calls == {un, re, pk}

\* C15: Context.Global holds at most one IOHook; an IO start field
\* processed while an IOHook is attached raises and leaves the attached one
\* as it is; after an IO end field none is attached and the raw accesses
\* that follow reach the stream itself
C15_SingleIoHook ==
    /\ \A r \in Calls : r.io_hook \in {""} \cup IoNames
    /\ \A log \in IoLogs : \A k \in 1..Len(log) :
          /\ (~log[k].end /\ log[k].before # "")
             => (log[k].raised /\ log[k].after = log[k].before)
          /\ log[k].raised =>
                (k = Len(log) /\ \A r \in Calls :
                    r.iolog = log => (~r.ok /\ r.io_hook = log[k].before))
          /\ log[k].end => log[k].after = ""
    /\ \A r \in Calls : \A k \in 1..Len(r.rawlog) :
          LET e == r.rawlog[k]
          IN  (e.nio > 0 /\ r.iolog[e.nio].end) =>
                 /\ r.iolog[e.nio].after = ""
                 /\ (r = pk /\ ~pk.moved) =>
                        SubSeq(pk.buf, e.at + 1, e.at + Len(e.out)) = e.out
                 /\ (r # pk) =>
                        SubSeq(r.data, e.at + 1, e.at + Len(e.data)) = e.data

C15_Witness ==
    /\ cls = "IoTwice" /\ pk.done /\ ~pk.ok
    /\ pk.err.typ = "RuntimeError" /\ pk.io_hook = "x"
    /\ Len(pk.iolog) = 2 /\ pk.iolog[2].before = "x" /\ pk.iolog[2].io = "y"

C15_WitnessEnd ==
    /\ cls = "IoEnd" /\ pk.done /\ pk.ok /\ pk.io_hook = ""
    /\ Len(pk.rawlog) = 1 /\ pk.rawlog[1].nio = 2 /\ Len(pk.buf) = 1
    /\ un.done /\ un.ok /\ Len(un.rawlog) = 1

\* ------------------------------------------------------------------------
\* REPEAT loops
\* ------------------------------------------------------------------------
\* the REPEAT steps of the caller's finished calls
UnpackLoops == {un.rlog, re.rlog}
PackLoops == {pk.rlog, sz.rlog}
\* the loop test as it stood when the step e was taken
LoopTest(e) ==
    /\ (e.count.t = "none" \/ e.i < NumOf(e.count))
    /\ (e.end.t = "none" \/ e.at - e.off < NumOf(e.end))
ItemsOf(L) == SelectSeq(L, LAMBDA e : e.ev = "item")
ItemValues(L) == [k \in 1..Len(ItemsOf(L)) |-> ItemsOf(L)[k].x]
HasSlot(e, n) == n \in DOMAIN e.P
\* the step L[k] follows the step before it as one iteration prescribes
StepOrder(L, k) ==
    LET e == L[k]
        p == L[k - 1]
    IN  CASE e.ev = "when" ->
                /\ LoopTest(e)
                /\ HasSlot(e, "i") /\ e.P["i"] = IntV(e.i)
                /\ ~HasSlot(e, "item")
                /\ e.pos = e.at
                /\ IF k = 1 THEN e.i = 0
                   ELSE /\ p.ev = "last" /\ ~IsTrue(p.x)
                        /\ e.i = p.i + 1 /\ e.at = p.pos
          [] e.ev = "item" ->
                /\ k > 1 /\ p.ev = "when" /\ p.i = e.i /\ ~IsFalse(p.x)
                /\ e.at = p.pos
          [] e.ev = "last" ->
                /\ k > 1 /\ p.ev = "item" /\ p.i = e.i
                /\ HasSlot(e, "item") /\ e.P["item"] = p.x
                /\ HasSlot(e, "i") /\ e.P["i"] = IntV(e.i)
          [] e.ev = "end" ->
                /\ ~HasSlot(e, "i") /\ ~HasSlot(e, "item")
                /\ k = Len(L)
                /\ IF k = 1 THEN e.i = 0 /\ ~LoopTest(e)
                   ELSE \/ /\ p.ev = "when" /\ IsFalse(p.x) /\ e.i = p.i
                           /\ Len(ItemsOf(L)) = e.i
                        \/ /\ p.ev = "last" /\ IsTrue(p.x) /\ e.i = p.i
                           /\ Len(ItemsOf(L)) = e.i + 1
                        \/ /\ p.ev = "last" /\ ~IsTrue(p.x) /\ e.i = p.i + 1
                           /\ ~LoopTest(e)
                           /\ Len(ItemsOf(L)) = e.i

\* C21: in every REPEAT loop of a pack, sizeof or unpack, 'when' is
\* evaluated only while the count and length test holds, with ctx.P.i set to
\* the index and before any byte of the item is read or written; the item
\* follows a 'when' that is not False; 'last' is evaluated next with the
\* item as ctx.P.item; the loop ends after a False 'when' (no item for that
\* index), after a True 'last' (its item being the final one) or when the
\* test fails, with ctx.P.i and ctx.P.item removed; the list an unpack
\* returns holds the items produced, in order.
C21_RepeatIterationOrder ==
    /\ \A L \in UnpackLoops \cup PackLoops :
          \A k \in 1..Len(L) : StepOrder(L, k)
    /\ \A c \in {un, re} :
          c.done /\ c.ok /\ c.rlog # <<>> =>
             c.val.v.m["items"] = ListV(ItemValues(c.rlog))
\* an unpack that stops on 'last' after a second item, one that stops on
\* 'when', and a pack that stops on 'last'
C21_Witness ==
    /\ cls = "Until" /\ un.done /\ un.ok /\ Len(ItemsOf(un.rlog)) = 2
    /\ IsTrue(un.rlog[Len(un.rlog) - 1].x)
C21_WitnessWhen ==
    /\ cls = "While" /\ un.done /\ un.ok
    /\ un.rlog[Len(un.rlog) - 1].ev = "when"
    /\ Len(ItemsOf(un.rlog)) = 2

\* ------------------------------------------------------------------------
\* SWITCH case selection
\* ------------------------------------------------------------------------
SwitchLogs == {un.swlog, re.swlog, pk.swlog, sz.swlog}
\* the SWITCH declaration of the class under test
SwitchField ==
    LET F == Fields(cls)
    IN  F[CHOOSE i \in 1..Len(F) : F[i].ftype = "SWITCH"]
Present(k) == \E i \in 1..Len(SwitchField.cases) : DictKeyEq(SwitchField.cases[i].kv, k)
CaseOf(k) == CHOOSE i \in 1..Len(SwitchField.cases) : DictKeyEq(SwitchField.cases[i].kv, k)
IntName(key) == StrV("_" \o FormatInt(key))
BoolWord(key) == StrV(IF key.v THEN "true" ELSE "false")
\* the case the probe order prescribes for the discriminant key
Selected(key) ==
    IF Present(key) THEN CaseOf(key)
    ELSE IF IsNum(key) /\ Present(IntName(key)) THEN CaseOf(IntName(key))
    ELSE IF key.t = "bool" /\ Present(BoolWord(key)) THEN CaseOf(BoolWord(key))
    ELSE IF key.t = "enum" /\ Present(StrV(key.v.name))
    THEN CaseOf(StrV(key.v.name))
    ELSE IF key.t = "enum" /\ Present(key.v.value) THEN CaseOf(key.v.value)
    ELSE IF Present(StrV("default")) THEN CaseOf(StrV("default"))
    ELSE 0

\* C22: the case a SWITCH field selects is the one stored under the
\* discriminant itself if there is one, else under "_<n>" for an integer
\* discriminant, else under "true"/"false" for a boolean, else under the
\* member's name and then the member's value for an enum; "default" is
\* selected only when none of these keys is in the map.
C22_SwitchProbeOrder ==
    \A L \in SwitchLogs : \A k \in 1..Len(L) : L[k].case = Selected(L[k].key)
\* an enum discriminant selected by its name although its value is a key too
C22_Witness ==
    /\ cls = "SwEnum" /\ un.done /\ un.ok /\ un.swlog # <<>>
    /\ un.swlog[1].key = EnumV("B", IntV(2))
    /\ SwitchField.cases[un.swlog[1].case].key = "B"
\* a boolean selected by "_True" although "true" is a key too
C22_WitnessBool ==
    /\ cls = "SwBool" /\ un.done /\ un.ok /\ un.swlog # <<>>
    /\ un.swlog[1].key = BoolV(TRUE)
    /\ SwitchField.cases[un.swlog[1].case].key = "_True"
\* True finds the key 1; an enum member finds its value; default
C22_WitnessTruth ==
    /\ cls = "SwTruth" /\ un.done /\ un.ok /\ un.swlog # <<>>
    /\ un.swlog[1].key = BoolV(TRUE)
    /\ SwitchField.cases[un.swlog[1].case].key = "1"
C22_WitnessValue ==
    /\ cls = "SwEnum" /\ pk.done /\ pk.ok /\ pk.swlog # <<>>
    /\ pk.swlog[1].key = EnumV("C", IntV(3))
    /\ SwitchField.cases[pk.swlog[1].case].key = "3"
C22_WitnessDefault ==
    /\ cls = "SwEnum" /\ un.done /\ un.ok /\ un.swlog # <<>>
    /\ un.swlog[1].key = EnumV("D", IntV(4))
    /\ SwitchField.cases[un.swlog[1].case].key = "default"

\* ------------------------------------------------------------------------
\* Sizing
\* ------------------------------------------------------------------------
\* C23 as claimed: a finished sizeof has moved the position only by the
\* sizes it accumulated (no SEEK changed the position or the size), has
\* evaluated no ACTION function, has started or ended no hook and no IO
\* hook, and has written no raw byte.
C23_SizingInert ==
    (sz.done /\ sz.ok) =>
        /\ ~sz.moved
        /\ sz.acts = <<>>
        /\ sz.hooks = <<>> /\ sz.hlog = <<>>
        /\ sz.io_hook = "" /\ sz.iolog = <<>>
        /\ sz.rawlog = <<>>
\* the parts of C23 taken one by one
C23_SeekInert == (sz.done /\ sz.ok) => ~sz.moved
C23_ActionInert == (sz.done /\ sz.ok) => sz.acts = <<>>
C23_HooksInert ==
    (sz.done /\ sz.ok) =>
        /\ sz.hooks = <<>> /\ sz.hlog = <<>>
        /\ sz.io_hook = "" /\ sz.iolog = <<>>
        /\ sz.rawlog = <<>>
C23_WitnessHooks ==
    /\ cls \in {"Chain", "IoEnd"} /\ sz.done /\ sz.ok

\* ------------------------------------------------------------------------
\* Contexts
\* ------------------------------------------------------------------------
ContextLogs == {un.clog, re.clog, pk.clog, sz.clog}
\* the Context that was current when the k-th Context of L was built
ParentOf(L, k) ==
    L[CHOOSE j \in 1..(k - 1) :
         /\ L[j].depth = L[k].parent
         /\ \A i \in (j + 1)..(k - 1) : L[i].depth # L[k].parent]

\* C24 as claimed: within one outermost pack, unpack or sizeof the Context
\* of every nested sub-structure has the GlobalContext of its parent (hence
\* the same root) and a new Params, and its parent link is the Context of
\* the enclosing structure.
C24_SharedGlobalContext ==
    \A L \in ContextLogs : \A k \in 1..Len(L) :
        L[k].parent > 0 =>
            /\ L[k].parent = L[k].depth - 1
            /\ L[k].P = EmptyMap
            /\ L[k].glob = ParentOf(L, k).glob
\* the same for pack and unpack alone
C24_SharedGlobalContextNotSizing ==
    \A L \in {un.clog, re.clog, pk.clog} : \A k \in 1..Len(L) :
        L[k].parent > 0 =>
            /\ L[k].parent = L[k].depth - 1
            /\ L[k].P = EmptyMap
            /\ L[k].glob = ParentOf(L, k).glob
C24_WitnessNotSizing ==
    /\ cls = "Outer" /\ pk.done /\ pk.ok /\ Len(pk.clog) = 2
    /\ un.done /\ un.ok /\ Len(un.clog) = 2

TellLogs == {[t |-> c.tlog, c |-> c.clog] : c \in {un, re, pk, sz}}
\* C25 as claimed: whenever a traversal is between two fields,
\* ctx.P.tell() is not negative and is the stream position less the
\* position at which the traversal of that structure began.
C25_TellRelative ==
    \A L \in TellLogs : \A k \in 1..Len(L.t) :
        /\ L.t[k].tell >= 0
        /\ L.t[k].tell = L.t[k].pos - L.c[L.t[k].ctx].at
\* the two halves of C25
C25_TellDifference ==
    \A L \in TellLogs : \A k \in 1..Len(L.t) :
        L.t[k].tell = L.t[k].pos - L.c[L.t[k].ctx].at
C25_TellNotNegative ==
    \A L \in TellLogs : \A k \in 1..Len(L.t) : L.t[k].tell >= 0

\* ------------------------------------------------------------------------
\* Checksum before the data
\* ------------------------------------------------------------------------
\* C26 as claimed: when pack computes the checksum ahead of the data, the
\* value it writes for the checksum field is the checksum of the bytes the
\* same pack then writes between checksum_start and checksum_end, whatever
\* fields precede the span; the computation leaves the real stream and the
\* real hook stack as they were.
C26_ForwardChecksum ==
    (pk.done /\ pk.ok /\ pk.fwd # <<>>) =>
        /\ pk.fwd[1].value = IntV(checksum_update(0, pk.fed))
        /\ pk.fwd[1].fed = pk.fed
        /\ pk.fwd[1].before = pk.fwd[1].after
\* the parts of C26: the separation of the sub-pack from the real stream,
\* and the checksum when no field before the span is alignment padding
C26_ForwardSeparate ==
    (pk.done /\ pk.ok /\ pk.fwd # <<>>) => pk.fwd[1].before = pk.fwd[1].after
C26_ForwardChecksumFixedLayout ==
    (pk.done /\ pk.ok /\ pk.fwd # <<>> /\ cls = "Fwd") =>
        /\ pk.fwd[1].value = IntV(checksum_update(0, pk.fed))
        /\ pk.fwd[1].fed = pk.fed
C26_WitnessFixedLayout ==
    /\ cls = "Fwd" /\ pk.done /\ pk.ok /\ pk.fwd # <<>>
    /\ pk.fed = <<1>> /\ pk.buf = <<1, 1>>

\* ------------------------------------------------------------------------
\* The cipher IO hook
\* ------------------------------------------------------------------------
RECURSIVE Flatten(_)
Flatten(q) == IF q = <<>> THEN <<>> ELSE Head(q) \o Flatten(Tail(q))
IsPrefix(a, b) == Len(a) <= Len(b) /\ a = SubSeq(b, 1, Len(a))
\* the stream under the hook as the caller is to see it
Deciphered ==
    IF val.keyed THEN decrypt(val.stream, val.block_size) ELSE val.stream
\* a chunk handed to decrypt starts on a block boundary and is a whole
\* number of blocks unless the stream ends in it
BlockAligned(d) ==
    /\ d.at % val.block_size = 0
    /\ \/ Len(d.data) % val.block_size = 0
       \/ d.at + Len(d.data) = Len(val.stream)

C28_EndFlushes ==
    (val.ended /\ val.keyed) =>
        /\ Flatten(val.enc) = val.win
        /\ val.under = encrypt(val.win, val.block_size)
\* what the end does keep: the whole blocks written before it
C28_EndKeepsWholeBlocks ==
    (val.ended /\ val.keyed) =>
        /\ IsPrefix(Flatten(val.enc), val.win)
        /\ Len(val.win) - Len(Flatten(val.enc)) < val.block_size
        /\ val.under = encrypt(Flatten(val.enc), val.block_size)

\* ------------------------------------------------------------------------
\* Predicates and the booleans
\* ------------------------------------------------------------------------
CondLogs == {un.cnd, re.cnd, pk.cnd, sz.cnd}
\* the step after a 'when' or a 'last' leaves the loop at the same index
Leaves(L, k) == L[k + 1].ev = "end" /\ L[k + 1].i = L[k].i

\* C29: a COND field passes over its base exactly when its condition is
\* the value False, and hands every other value (None, 0, empty bytes
\* included) to the base; a REPEAT loop stops after 'when' exactly when it
\* is the value False and after 'last' exactly when it is the value True.
C29_IdentityWithBooleans ==
    /\ \A L \in CondLogs : \A k \in 1..Len(L) :
          L[k].skipped <=> L[k].x = BoolV(FALSE)
    /\ \A L \in UnpackLoops \cup PackLoops : \A k \in 1..(Len(L) - 1) :
          /\ L[k].ev = "when" => (Leaves(L, k) <=> L[k].x = BoolV(FALSE))
          /\ L[k].ev = "last" => (Leaves(L, k) <=> L[k].x = BoolV(TRUE))
    /\ (cls = "CondLit" /\ pk.done /\ pk.ok) =>
          pk.buf = BaseBytes(pk.of.v.m.a) \o BaseBytes(pk.of.v.m.b)
                   \o BaseBytes(pk.of.v.m.c)
    /\ (cls = "CondLit" /\ un.done /\ un.ok) =>
          /\ un.pos = 3
          /\ un.val.v.m.a = IntV(un.data[1]) /\ un.val.v.m.b = IntV(un.data[2])
          /\ un.val.v.m.c = IntV(un.data[3]) /\ un.val.v.m.d = NoneV
    /\ (cls = "Loop" /\ un.done /\ un.ok) =>
          un.val.v.m["items"] = ListV(<<IntV(un.data[1]), IntV(un.data[2])>>)
C29_Witness ==
    /\ cls = "CondLit" /\ pk.done /\ pk.ok /\ Len(pk.cnd) = 4
    /\ pk.cnd[1].x = NoneV /\ pk.cnd[2].x = IntV(0)
    /\ pk.cnd[3].x = BytesV(<<>>) /\ pk.cnd[4].skipped
    /\ pk.buf = <<1, 0, 1>>
C29_WitnessLoop ==
    /\ cls = "Loop" /\ un.done /\ un.ok /\ un.data = <<0, 1>>
    /\ \E k \in 1..Len(un.rlog) :
          un.rlog[k].ev = "when" /\ un.rlog[k].x = IntV(0)
    /\ \E k \in 1..Len(un.rlog) :
          un.rlog[k].ev = "last" /\ un.rlog[k].x = IntV(1)
    /\ Len(ItemsOf(un.rlog)) = 2

\* ------------------------------------------------------------------------
\* Termination of REPEAT
\* ------------------------------------------------------------------------
\* the loop L was left because its count or length test failed
EndedByTest(L) ==
    /\ L # <<>> /\ L[Len(L)].ev = "end"
    /\ \/ Len(L) = 1
       \/ L[Len(L) - 1].ev = "last" /\ L[Len(L) - 1].x # BoolV(TRUE)

\* C30 as claimed: a REPEAT loop with a count or a length budget comes to
\* an end whatever the size of its items; with a count c it yields at most c
\* items, and with a length budget it is left by the test only when the
\* count is used up or the position relative to the struct has reached the
\* position at loop entry plus the budget.
C30_RepeatTerminates ==
    /\ \A c \in {un, re} : c.done => c.err.typ # "NoTermination"
    /\ \A c \in {pk, sz} : c.done => c.err.typ # "NoTermination"
    /\ \A L \in UnpackLoops \cup PackLoops :
          /\ (L # <<>> /\ L[1].count.t = "int")
             => Len(ItemsOf(L)) <= L[1].count.v
          /\ (EndedByTest(L) /\ L[1].end.t = "int")
             => \/ L[1].count.t = "int" /\ L[Len(L)].i >= L[1].count.v
                \/ L[Len(L)].pos - L[Len(L)].off >= L[1].end.v
\* the same for loops whose items take at least one byte
C30_RepeatTerminatesNonEmptyItems ==
    /\ \A c \in {un, re} :
          (c.done /\ ~(cls = "Budget" /\ Take(c.data, 1) = <<0>>))
          => c.err.typ # "NoTermination"
    /\ \A c \in {pk, sz} : c.done => c.err.typ # "NoTermination"
    /\ \A L \in UnpackLoops \cup PackLoops :
          /\ (L # <<>> /\ L[1].count.t = "int")
             => Len(ItemsOf(L)) <= L[1].count.v
          /\ (EndedByTest(L) /\ L[1].end.t = "int")
             => \/ L[1].count.t = "int" /\ L[Len(L)].i >= L[1].count.v
                \/ L[Len(L)].pos - L[Len(L)].off >= L[1].end.v
C30_WitnessBudget ==
    /\ cls = "Budget" /\ un.done /\ un.ok /\ un.data = <<1, 0, 1>>
    /\ EndedByTest(un.rlog) /\ Len(ItemsOf(un.rlog)) = 2 /\ un.pos = 3
====
